---- MODULE Spec2Model ----
(***************************************************************************)
(* FlowRunner: a browser extension that replays Chrome DevTools Recorder   *)
(* recordings.  The module models                                          *)
(*   - the content-script Replay Runner (src/content/executor.js),         *)
(*   - its step handlers and findElement on a page that changes over       *)
(*     time (src/content/executor.js),                                     *)
(*   - the recording parser (src/lib/parser.js),                           *)
(*   - the StorageManager and the alarms it owns, with its calls taken     *)
(*     one at a time and overlapping (src/lib/storage.js),                 *)
(*   - the service worker's message handlers and executeTask               *)
(*     (src/background/service-worker.js).                                 *)
(* Each component has its own specification over the shared variables.     *)
(***************************************************************************)
EXTENDS Integers, Sequences, FiniteSets, TLC

VARIABLES
  \* ---- Replay Runner (executor.js executeSteps) ----
  rpc,            \* "idle" | "running" | "executing" | "delay" | "done"
  rsteps,         \* the step list handed to executeSteps
  renv,           \* page environment: renv[k] = the page lets step k complete
  rpolicy,        \* errorPolicy argument
  rtaskId,        \* taskId argument
  ri,             \* loop variable i (0-based, as in the source)
  completedSteps, \* let completedSteps
  lastError,      \* let lastError (NoError or the error's message)
  hasFailedSteps, \* let hasFailedSteps
  rresult,        \* the value executeSteps resolves to (NoResult before)
  msgs,           \* EXECUTION_RESULT messages sent with chrome.runtime.sendMessage
  rtrace,         \* history: the index of each step handed to executeStep, and
                  \* Pause for each delay(Config.stepDelay) that resolved, in order
  \* ---- Recording parser (parser.js) ----
  ppc,            \* "ready" | "parsed"
  doc,            \* the text handed to parse, as the JSON value it denotes
  parseResult,    \* what parse returned (or that it threw)
  \* ---- StorageManager, chrome.storage.local and chrome.alarms ----
  tasks,          \* chrome.storage.local[flowrunner_tasks]: the task array
  alarms,         \* chrome.alarms: the alarm task_<id> of each id, or NoAlarm
  lastOp,         \* history: the storage operation that returned last
  logs,           \* chrome.storage.local[flowrunner_logs]: newest first
  \* ---- Service worker: executeTask and handleExecutionResult ----
  cpc,            \* executeTask: "idle" | "loading" | "sent" | "awaiting" | "returned"
  ctaskId,        \* executeTask: taskId
  ctask,          \* executeTask: const task (NoTask before it is found)
  cresult,        \* what executeTask returned
  notifications,  \* chrome.notifications.create calls, in order
  tab,            \* the tab chrome.tabs.create opened: when it completes or goes
  wclock,         \* Date.now() in the service worker, in ms
  wstart,         \* waitForTabLoad: const startTime
  \* ---- The page and findElement (executor.js) ----
  clock,          \* Date.now() in the page, in ms
  dom,            \* the document: for each descriptor, since when it matches a node
  fpc,            \* findElement: "idle" | "check" | "sleep" | "returned" | "threw"
  fselectors,     \* findElement: selectors argument
  ftimeout,       \* findElement: timeout argument
  fcalled,        \* history: Date.now() when findElement was called
  fstart,         \* findElement: const startTime
  fresult,        \* what findElement returned (NoNode for null)
  polls,          \* history: passes of the while body
  delays,         \* history: completed delay(100) calls
  evaluated,      \* history: the groups queried in the latest pass, in order
  queried,        \* history: every selector handed to the document since the call
  \* ---- One call of executeStep (executor.js) ----
  hpc,            \* "idle" | "finding" | "settle" | "evaluating" | "waiting" | "returned"
  hstep,          \* the step handed to executeStep
  houtcome,       \* "none" | "resolved" | the message of the Error thrown
  events,         \* what the handler did to the page, in order
  estart,         \* handleWaitForExpression: const startTime
  epolls,         \* history: evaluations of the expression
  \* ---- Concurrent StorageManager calls (storage.js) ----
  opc,            \* per caller: "idle" | "read" | "written" | "done"
  opcall,         \* per caller: the operation called and its arguments
  opsnap,         \* per caller: the array chrome.storage.local.get resolved to
  opret           \* per caller: what the call returned

runnerVars == <<rpc, rsteps, renv, rpolicy, rtaskId, ri, completedSteps, lastError,
                hasFailedSteps, rresult, msgs, rtrace>>

parserVars == <<ppc, doc, parseResult>>

storeVars == <<tasks, alarms, lastOp, logs>>
coordVars == <<cpc, ctaskId, ctask, cresult, notifications, tab, wclock, wstart>>
findVars == <<fpc, fselectors, ftimeout, fcalled, fstart, fresult, polls, delays,
              evaluated, queried>>
pageVars == <<clock, dom, findVars, hpc, hstep, houtcome, events, estart, epolls>>
opVars == <<opc, opcall, opsnap, opret>>

vars == <<runnerVars, parserVars, storeVars, coordVars, pageVars, opVars>>

\* JavaScript's undefined and null, kept apart from every other value.
Undefined == "undefined"
Null == "null"

SeqsUpTo(S, n) == UNION {[1..k -> S] : k \in 0..n}

(***************************************************************************)
(* Bounds of the model.                                                    *)
(***************************************************************************)
MaxSteps == 3
MaxActions == 3
MaxDay == 0
MaxDateGap == 1
MaxLogCalls == 3
MaxGroups == 2

(***************************************************************************)
(* Recording parser: parser.js                                             *)
(*                                                                         *)
(* A document is the JSON text handed to parse, described by the value     *)
(* JSON.parse makes of it:                                                 *)
(*   json        "syntaxError" (JSON.parse throws), "null", "primitive"    *)
(*               (number, string, boolean), "array" or "object";           *)
(*   stepsField  for an object, its steps member: "missing", "notArray"    *)
(*               or "array";                                               *)
(*   steps       the members of that array.                                *)
(* A raw action is described by js ("object", "null" or "primitive") and,  *)
(* for an object, its type and url members (Undefined when absent) and its *)
(* own index member (a number, NoIndex when it has none).                  *)
(***************************************************************************)
NoIndex == 0 - 1

SUPPORTED_TYPES == {"navigate", "click", "doubleClick", "change", "keyDown",
                    "keyUp", "scroll", "hover", "waitForElement",
                    "waitForExpression", "setViewport"}

NoParse == [outcome |-> "none", error |-> "none", startUrl |-> Null, steps |-> <<>>]
NoDoc == [json |-> "null", stepsField |-> "missing", steps |-> <<>>]

\* JavaScript truthiness of the string-or-absent values of the model.
Falsy(v) == v \in {Undefined, Null, ""}

\* Lines 75-86: the loop of validate from position i on.  Reading .type of
\* null raises a TypeError; of a primitive it yields undefined.
RECURSIVE ValidateSteps(_, _)
ValidateSteps(steps, i) ==
  IF i > Len(steps) THEN [valid |-> TRUE, throws |-> FALSE, error |-> "none"]
  ELSE IF steps[i].js = "null"
    THEN [valid |-> FALSE, throws |-> TRUE, error |-> "TypeError: step is null"]
  ELSE IF steps[i].js = "primitive" \/ Falsy(steps[i].type)
    THEN [valid |-> FALSE, throws |-> FALSE, error |-> "step lacks type"]
  ELSE ValidateSteps(steps, i + 1)

\* Mutant: an empty steps array passes validation.
validate_NoEmptyCheck(json) ==
  IF json.json \in {"syntaxError", "null", "primitive"}
    THEN [valid |-> FALSE, throws |-> FALSE, error |-> "invalid JSON format"]
  ELSE IF json.json = "array" \/ json.stepsField # "array"
    THEN [valid |-> FALSE, throws |-> FALSE, error |-> "missing steps array"]
  ELSE ValidateSteps(json.steps, 1)

\* Lines 59-89: validate(json).  A top-level array is an object without a
\* steps member.
validate(json) ==
  IF json.json \in {"syntaxError", "null", "primitive"}
    THEN [valid |-> FALSE, throws |-> FALSE, error |-> "invalid JSON format"]
  ELSE IF json.json = "array" \/ json.stepsField # "array"
    THEN [valid |-> FALSE, throws |-> FALSE, error |-> "missing steps array"]
  ELSE IF Len(json.steps) = 0
    THEN [valid |-> FALSE, throws |-> FALSE, error |-> "steps array is empty"]
  ELSE ValidateSteps(json.steps, 1)

\* Lines 120-189: transformStep(step, index).  The navigate case copies url;
\* the other supported kinds copy their own members and not url; the
\* default case is Object.assign(transformed, step): it copies every own
\* member of the raw action over transformed, an index member included.
transformStep(step, index) ==
  [type |-> step.type,
   index |-> IF step.type \notin SUPPORTED_TYPES /\ step.index # NoIndex
               THEN step.index ELSE index,
   url |-> IF step.type = "navigate" \/ step.type \notin SUPPORTED_TYPES
             THEN step.url ELSE Undefined]

\* Mutant: the url of the last navigate step is taken.
extractStartUrl_LastNavigate(steps) ==
  LET nav == {k \in 1..Len(steps) : steps[k].type = "navigate"}
  IN IF nav = {} THEN Null
     ELSE LET last == CHOOSE k \in nav : \A j \in nav : j <= k
          IN IF Falsy(steps[last].url) THEN Null ELSE steps[last].url

\* Lines 216-219: extractStartUrl(steps): steps.find(...)?.url || null.
extractStartUrl(steps) ==
  LET nav == {k \in 1..Len(steps) : steps[k].type = "navigate"}
  IN IF nav = {} THEN Null
     ELSE LET first == CHOOSE k \in nav : \A j \in nav : k <= j
          IN IF Falsy(steps[first].url) THEN Null ELSE steps[first].url

\* Lines 96-112: transform(json); index is the 0-based map position.
transform(json) ==
  LET steps == [k \in 1..Len(json.steps) |-> transformStep(json.steps[k], k - 1)]
  IN [outcome |-> "success", error |-> "none",
      startUrl |-> extractStartUrl(steps), steps |-> steps]

ParseFailure(error) ==
  [outcome |-> "failure", error |-> error, startUrl |-> Null, steps |-> <<>>]

\* Mutant: parse without its try/catch: an exception leaves parse.
parse_NoCatch(d) ==
  IF d.json = "syntaxError" \/ validate(d).throws
    THEN [outcome |-> "throws", error |-> "exception", startUrl |-> Null, steps |-> <<>>]
  ELSE IF ~validate(d).valid THEN ParseFailure(validate(d).error)
  ELSE transform(d)

\* Lines 29-52: parse(jsonString).  JSON.parse or validate throwing lands in
\* the catch, which returns a failure value.
parse(d) ==
  IF d.json = "syntaxError" THEN ParseFailure("JSON parse failed: SyntaxError")
  ELSE IF validate(d).throws THEN ParseFailure("JSON parse failed: TypeError")
  ELSE IF ~validate(d).valid THEN ParseFailure(validate(d).error)
  ELSE transform(d)

ParserIdle ==
  /\ ppc = "ready"
  /\ doc = NoDoc
  /\ parseResult = NoParse

(***************************************************************************)
(* Tasks, storage and alarms: types.js, storage.js                         *)
(*                                                                         *)
(* Instants are milliseconds of local time since day 0, 00:00:00.000; the  *)
(* local calendar has days of 24 hours (no daylight-saving change).  The   *)
(* alarm of a task is named task_<id>; the model keys alarms by the id.    *)
(***************************************************************************)
TaskIds == {"t1", "t2"}

\* types.js 65-70: DefaultSettings.maxLogs.
maxLogs == 100

MsPerMinute == 60 * 1000
MsPerHour == 60 * MsPerMinute
MsPerDay == 24 * MsPerHour

Digits == <<"0", "1", "2", "3", "4", "5", "6", "7", "8", "9">>
DigitValue(c) == CHOOSE d \in 0..9 : Digits[d + 1] = c

\* The value of an <input type="time">: "HH:MM", as its characters.
FormatTime(h, m) ==
  <<Digits[(h \div 10) + 1], Digits[(h % 10) + 1], ":",
    Digits[(m \div 10) + 1], Digits[(m % 10) + 1]>>

\* String.prototype.split(':'): the pieces between the colons.
RECURSIVE SplitColon(_, _)
SplitColon(str, piece) ==
  IF str = <<>> THEN <<piece>>
  ELSE IF Head(str) = ":" THEN <<piece>> \o SplitColon(Tail(str), <<>>)
  ELSE SplitColon(Tail(str), Append(piece, Head(str)))

\* Number(s) for a string of decimal digits (Number('') is 0).
RECURSIVE ToNumber(_, _)
ToNumber(str, acc) ==
  IF str = <<>> THEN acc
  ELSE ToNumber(Tail(str), 10 * acc + DigitValue(Head(str)))

\* storage.js 221: schedule.time.split(':').map(Number).
ParseTime(time) ==
  LET parts == SplitColon(time, <<>>)
  IN [k \in 1..Len(parts) |-> ToNumber(parts[k], 0)]

\* Date.prototype.setHours(hours, minutes, 0, 0) on the local day of d.
SetHours(d, hours, minutes) ==
  (d \div MsPerDay) * MsPerDay + hours * MsPerHour + minutes * MsPerMinute

\* Date.prototype.setDate(getDate() + 1): the same time on the next day.
NextDay(d) == d + MsPerDay

\* Mutant: a candidate equal to now is kept for today.
NeedsNextDay_Strict(next, now) == next < now

\* storage.js 229: if (next <= now).
NeedsNextDay(next, now) == next <= now

\* storage.js 221-231: the instant of the next run.  now and next come from
\* two successive new Date() calls, so next starts at now2 >= now.
NextRun(time, now, now2) ==
  LET hm == ParseTime(time)
      next == SetHours(now2, hm[1], hm[2])
  IN IF NeedsNextDay(next, now) THEN NextDay(next) ELSE next

NoAlarm == [when |-> 0 - 1, periodInMinutes |-> 0]

\* types.js 93-113: createTask; the id comes from generateId().
createTask(id, name, url, steps) ==
  [id |-> id,
   name |-> IF Falsy(name) THEN "unnamed task" ELSE name,
   url |-> IF Falsy(url) THEN "" ELSE url,
   steps |-> steps,
   errorPolicy |-> "stop",
   schedule |-> [enabled |-> FALSE, time |-> FormatTime(9, 0), days |-> 1..5],
   lastStatus |-> Null]

NoTask == [id |-> "none", name |-> "none", url |-> "", steps |-> <<>>,
           errorPolicy |-> "stop",
           schedule |-> [enabled |-> FALSE, time |-> <<>>, days |-> {}],
           lastStatus |-> Null]

NoOp == [op |-> "none", id |-> "none", ok |-> TRUE, enabled |-> FALSE,
         now |-> 0, time |-> <<>>, nextRun |-> 0 - 1]

StoredIds == {tasks[k].id : k \in 1..Len(tasks)}

\* Array.prototype.filter with t => t.id !== taskId.
RECURSIVE FilterOut(_, _)
FilterOut(ts, taskId) ==
  IF ts = <<>> THEN <<>>
  ELSE IF Head(ts).id # taskId THEN <<Head(ts)>> \o FilterOut(Tail(ts), taskId)
  ELSE FilterOut(Tail(ts), taskId)

\* Array.prototype.findIndex with t => t.id === taskId (1-based; 0 for -1).
FindIndex(ts, taskId) ==
  IF \E k \in 1..Len(ts) : ts[k].id = taskId
    THEN CHOOSE k \in 1..Len(ts) :
           /\ ts[k].id = taskId
           /\ \A j \in 1..(k - 1) : ts[j].id # taskId
    ELSE 0

\* Mutant: the members that updates does not name lose the steps.
Spread_DropsSteps(task, updates) ==
  [f \in DOMAIN task \cup DOMAIN updates |->
     IF f \in DOMAIN updates THEN updates[f]
     ELSE IF f = "steps" THEN <<>> ELSE task[f]]

\* { ...task, ...updates }: the members of updates override those of task.
Spread(task, updates) ==
  [f \in DOMAIN task \cup DOMAIN updates |->
     IF f \in DOMAIN updates THEN updates[f] ELSE task[f]]

\* storage.js 67-73: saveTask(task).
saveTask(task) ==
  /\ tasks' = Append(tasks, task)
  /\ lastOp' = [NoOp EXCEPT !.op = "saveTask", !.id = task.id]
  /\ UNCHANGED alarms

\* storage.js 81-98: updateTask(taskId, updates).
updateTask(taskId, updates) ==
  LET index == FindIndex(tasks, taskId)
  IN /\ IF index = 0
          THEN /\ lastOp' = [NoOp EXCEPT !.op = "updateTask", !.id = taskId, !.ok = FALSE]
               /\ UNCHANGED tasks
          ELSE /\ tasks' = [tasks EXCEPT ![index] = Spread(tasks[index], updates)]
               /\ lastOp' = [NoOp EXCEPT !.op = "updateTask", !.id = taskId,
                                         !.enabled = ("schedule" \in DOMAIN updates
                                                      /\ updates.schedule.enabled)]
     /\ UNCHANGED alarms

\* storage.js 105-120: deleteTask(taskId).
deleteTask(taskId) ==
  LET filteredTasks == FilterOut(tasks, taskId)
  IN IF Len(filteredTasks) = Len(tasks)
       THEN /\ lastOp' = [NoOp EXCEPT !.op = "deleteTask", !.id = taskId, !.ok = FALSE]
            /\ UNCHANGED <<tasks, alarms>>
       ELSE /\ tasks' = filteredTasks
            /\ alarms' = [alarms EXCEPT ![taskId] = NoAlarm]
            /\ lastOp' = [NoOp EXCEPT !.op = "deleteTask", !.id = taskId]

\* Mutant: clearing one task's alarm clears every alarm.
alarmsClear_All(as, taskId) == [id \in DOMAIN as |-> NoAlarm]

\* storage.js 215: chrome.alarms.clear(alarmName) with alarmName =
\* `task_${taskId}` (212): the alarms left.
alarmsClear(as, taskId) == [as EXCEPT ![taskId] = NoAlarm]

\* storage.js 211-241: setTaskSchedule(taskId, schedule), called when the
\* clock reads now (and now2 at the second new Date()).
setTaskSchedule(taskId, schedule, now, now2) ==
  /\ IF ~schedule.enabled
       THEN /\ alarms' = alarmsClear(alarms, taskId)
            /\ lastOp' = [NoOp EXCEPT !.op = "setTaskSchedule", !.id = taskId, !.now = now]
       ELSE LET next == NextRun(schedule.time, now, now2)
            IN /\ alarms' = [alarms EXCEPT ![taskId] =
                               [when |-> next, periodInMinutes |-> 24 * 60]]
               /\ lastOp' = [NoOp EXCEPT !.op = "setTaskSchedule", !.id = taskId,
                                         !.enabled = TRUE, !.now = now,
                                         !.time = schedule.time,
                                         !.nextRun = next]
  /\ UNCHANGED tasks

\* Mutant: the new entry is prepended and nothing is trimmed.
addLog_NoTrim(log) ==
  logs' = <<log>> \o logs

\* storage.js 149-162: addLog(log): unshift, then keep the first maxLogs.
\* settings.maxLogs is DefaultSettings.maxLogs: nothing writes the settings.
addLog(log) ==
  logs' = SubSeq(<<log>> \o logs, 1,
                 IF Len(logs) + 1 < maxLogs THEN Len(logs) + 1 ELSE maxLogs)

\* types.js 120-130: createLog.
createLog(taskId, status, message) ==
  [taskId |-> taskId, status |-> status,
   message |-> IF Falsy(message) THEN "" ELSE message]

StoreEmpty ==
  /\ tasks = <<>>
  /\ alarms = [id \in TaskIds |-> NoAlarm]
  /\ lastOp = NoOp
  /\ logs = <<>>

(***************************************************************************)
(* StorageManager calls that overlap: storage.js                           *)
(*                                                                         *)
(* Every operation awaits chrome.storage.local.get, works on the array it  *)
(* resolved to, and awaits chrome.storage.local.set with the result; other *)
(* calls of the service worker run between the two.  A call is described   *)
(* by op, taskId and status: addLog stores createLog({taskId, status}),    *)
(* updateTask stores {lastStatus: status}, saveTask stores the task        *)
(* imported with that id.                                                  *)
(***************************************************************************)
Callers == {"p1", "p2"}
NoCall == [op |-> "none", taskId |-> "none", status |-> "none"]
StorageCall(op, taskId, status) == [op |-> op, taskId |-> taskId, status |-> status]
LogOfCall(call) == createLog(call.taskId, call.status, "execution finished")

\* The operation is entered and its chrome.storage.local.get resolves:
\* storage.js 68, 82, 106 (getAllTasks) and 150 (addLog).
StorageGet(p, call) ==
  /\ opc[p] = "idle"
  /\ opc' = [opc EXCEPT ![p] = "read"]
  /\ opcall' = [opcall EXCEPT ![p] = call]
  /\ opsnap' = [opsnap EXCEPT ![p] = IF call.op = "addLog" THEN logs ELSE tasks]
  /\ UNCHANGED <<opret, storeVars>>

\* The statements between the get and the set, and the set itself:
\* storage.js 69-72 (saveTask), 83-97 (updateTask), 107-115 (deleteTask),
\* 151-161 (addLog).  updateTask and deleteTask return without a set when
\* the array read does not hold the id.
StorageSet(p) ==
  /\ opc[p] = "read"
  /\ LET call == opcall[p]
         snap == opsnap[p]
         index == FindIndex(snap, call.taskId)
     IN CASE call.op = "addLog" ->
               /\ logs' = SubSeq(<<LogOfCall(call)>> \o snap, 1,
                                 IF Len(snap) + 1 < maxLogs THEN Len(snap) + 1 ELSE maxLogs)
               /\ opc' = [opc EXCEPT ![p] = "done"]
               /\ opret' = [opret EXCEPT ![p] = "ok"]
               /\ UNCHANGED tasks
          [] call.op = "saveTask" ->
               /\ tasks' = Append(snap, createTask(call.taskId, "rec", "https://x", <<>>))
               /\ opc' = [opc EXCEPT ![p] = "done"]
               /\ opret' = [opret EXCEPT ![p] = "ok"]
               /\ UNCHANGED logs
          [] call.op = "updateTask" ->
               /\ IF index = 0
                    THEN /\ opret' = [opret EXCEPT ![p] = "notFound"]
                         /\ UNCHANGED tasks
                    ELSE /\ tasks' = [snap EXCEPT ![index] =
                                        Spread(snap[index], [lastStatus |-> call.status])]
                         /\ opret' = [opret EXCEPT ![p] = "ok"]
               /\ opc' = [opc EXCEPT ![p] = "done"]
               /\ UNCHANGED logs
          [] call.op = "deleteTask" ->
               /\ IF Len(FilterOut(snap, call.taskId)) = Len(snap)
                    THEN /\ opret' = [opret EXCEPT ![p] = "notFound"]
                         /\ opc' = [opc EXCEPT ![p] = "done"]
                         /\ UNCHANGED tasks
                    ELSE /\ tasks' = FilterOut(snap, call.taskId)
                         /\ opc' = [opc EXCEPT ![p] = "written"]
                         /\ UNCHANGED opret
               /\ UNCHANGED logs
  /\ UNCHANGED <<opcall, opsnap, alarms, lastOp>>

\* storage.js 117-119: deleteTask's chrome.alarms.clear resolves and
\* deleteTask returns success.
AlarmCleared(p) ==
  /\ opc[p] = "written"
  /\ alarms' = [alarms EXCEPT ![opcall[p].taskId] = NoAlarm]
  /\ opc' = [opc EXCEPT ![p] = "done"]
  /\ opret' = [opret EXCEPT ![p] = "ok"]
  /\ UNCHANGED <<opcall, opsnap, tasks, logs, lastOp>>

OpsIdle ==
  /\ opc = [p \in Callers |-> "idle"]
  /\ opcall = [p \in Callers |-> NoCall]
  /\ opsnap = [p \in Callers |-> <<>>]
  /\ opret = [p \in Callers |-> "none"]

(***************************************************************************)
(* Replay Runner: executor.js                                              *)
(***************************************************************************)
ExecutionStatus == [SUCCESS |-> "success", FAILED |-> "failed", PARTIAL |-> "partial"]

NoError == "none"
NoResult == [status |-> "none", success |-> FALSE, completedSteps |-> 0,
             totalSteps |-> 0, message |-> "none"]

\* The kinds executeStep's switch knows, and the message of the Error each
\* handler throws when the page does not let it complete.  Kinds whose
\* handler has no throw statement map to NoError.
StepErrorMessage(type) ==
  CASE type = "click" -> "click target not found"
    [] type = "doubleClick" -> "double-click target not found"
    [] type = "change" -> "change target not found"
    [] type = "hover" -> "hover target not found"
    [] type = "waitForExpression" -> "wait for expression timed out"
    [] type = "keyDown" -> "TypeError: activeElement is null"
    [] type = "keyUp" -> "TypeError: activeElement is null"
    [] OTHER -> NoError

\* executeStep(step) rejects: the handler the switch dispatches to throws.
\* pageOk says whether the page lets the handler complete (findElement
\* returns a node, the expression turns truthy, an element holds focus).
\* navigate, scroll, waitForElement, setViewport and the default branch
\* have no path that throws.
executeStepThrows(step, pageOk) ==
  StepErrorMessage(step.type) # NoError /\ ~pageOk

\* Mutant: the counter is advanced for every attempted step.
CompletedAfter_CountsAttempts(completed, threw) ==
  completed + 1

\* Lines 62-64: completedSteps++ runs only when executeStep resolved.
CompletedAfter(completed, threw) ==
  IF threw THEN completed ELSE completed + 1

\* Mutant: the stop-policy branch of the status computation is missing.
FinalStatus_NoStopBranch(err, policy, hasFailed, completed, total) ==
  IF hasFailed THEN ExecutionStatus.PARTIAL
  ELSE IF completed < total THEN ExecutionStatus.PARTIAL
  ELSE ExecutionStatus.SUCCESS

\* Mutant: any recorded error yields failed, whatever the policy.
FinalStatus_ErrorAlwaysFailed(err, policy, hasFailed, completed, total) ==
  IF err # NoError THEN ExecutionStatus.FAILED
  ELSE IF hasFailed THEN ExecutionStatus.PARTIAL
  ELSE IF completed < total THEN ExecutionStatus.PARTIAL
  ELSE ExecutionStatus.SUCCESS

\* Lines 87-95: the final status.
FinalStatus(err, policy, hasFailed, completed, total) ==
  IF err # NoError /\ policy = "stop" THEN ExecutionStatus.FAILED
  ELSE IF hasFailed THEN ExecutionStatus.PARTIAL
  ELSE IF completed < total THEN ExecutionStatus.PARTIAL
  ELSE ExecutionStatus.SUCCESS

\* Lines 98-105: the result object; the completion message when no error.
\* Mutant: totalSteps reports the steps completed.
RunResult_TotalIsCompleted(err, policy, hasFailed, completed, total) ==
  LET status == FinalStatus(err, policy, hasFailed, completed, total)
  IN [status |-> status,
      success |-> (status = ExecutionStatus.SUCCESS),
      completedSteps |-> completed,
      totalSteps |-> completed,
      message |-> IF err # NoError THEN err ELSE "execution finished"]

\* Lines 87-105: the status and the result object.
RunResult(err, policy, hasFailed, completed, total) ==
  LET status == FinalStatus(err, policy, hasFailed, completed, total)
  IN [status |-> status,
      success |-> (status = ExecutionStatus.SUCCESS),
      completedSteps |-> completed,
      totalSteps |-> total,
      message |-> IF err # NoError THEN err ELSE "execution finished"]

\* Lines 85-117: leave the loop, build the result, send EXECUTION_RESULT,
\* resolve.  No await separates these from the end of the last iteration.
\* The outer catch (lines 119-135) is never entered: every rejection of
\* executeStep is caught by the inner catch, and nothing after the loop
\* throws.
FinishRun(err, hasFailed, completed) ==
  LET res == RunResult(err, rpolicy, hasFailed, completed, Len(rsteps))
  IN /\ rpc' = "done"
     /\ rresult' = res
     /\ msgs' = Append(msgs, [type |-> "EXECUTION_RESULT",
                              taskId |-> rtaskId',
                              status |-> res.status,
                              message |-> res.message])

\* Line 49-58: executeSteps is called; an empty list falls through the loop.
StartRun(steps, env, taskId, policy) ==
  /\ rpc = "idle"
  /\ rtaskId' = taskId
  /\ rsteps' = steps
  /\ renv' = env
  /\ rpolicy' = policy
  /\ ri' = 0
  /\ completedSteps' = 0
  /\ lastError' = NoError
  /\ hasFailedSteps' = FALSE
  /\ rtrace' = <<>>
  /\ IF Len(steps) = 0
       THEN /\ rpc' = "done"
            /\ rresult' = RunResult(NoError, policy, FALSE, 0, 0)
            /\ msgs' = Append(msgs, [type |-> "EXECUTION_RESULT",
                                     taskId |-> taskId,
                                     status |-> rresult'.status,
                                     message |-> rresult'.message])
       ELSE /\ rpc' = "running"
            /\ UNCHANGED <<rresult, msgs>>

\* The entry of rtrace for a delay(Config.stepDelay) that resolved.
Pause == 0 - 1

\* Mutant: a failure is ignored under every policy.
IgnoresFailure_Always(policy) == TRUE

\* Line 71: errorPolicy === 'continue'.
IgnoresFailure(policy) == policy = "continue"

\* Mutant: the step after a failed one is passed over.
AfterFailure_SkipsOne(i) == i + 2

\* Lines 76 and 58: continue, then the for statement's i++.
AfterFailure(i) == i + 1

\* Lines 58-63: the loop condition holds and executeStep(steps[i]) is called.
InvokeStep ==
  /\ UNCHANGED <<parserVars, pageVars, opVars, storeVars, coordVars>>
  /\ rpc = "running"
  /\ ri < Len(rsteps)
  /\ rpc' = "executing"
  /\ rtrace' = Append(rtrace, ri)
  /\ UNCHANGED <<rsteps, renv, rpolicy, rtaskId, ri, completedSteps, lastError,
                 hasFailedSteps, rresult, msgs>>

\* Lines 62-69: executeStep(steps[i]) resolved.
StepSucceeds ==
  /\ UNCHANGED <<parserVars, pageVars, opVars, storeVars, coordVars>>
  /\ rpc = "executing"
  /\ ri < Len(rsteps)
  /\ ~executeStepThrows(rsteps[ri + 1], renv[ri + 1])
  /\ completedSteps' = CompletedAfter(completedSteps, FALSE)
  /\ UNCHANGED <<rsteps, renv, rpolicy, rtaskId, lastError, hasFailedSteps, rtrace>>
  /\ IF ri < Len(rsteps) - 1
       THEN \* await delay(Config.stepDelay)
            /\ rpc' = "delay"
            /\ UNCHANGED <<ri, rresult, msgs>>
       ELSE /\ ri' = ri + 1
            /\ FinishRun(lastError, hasFailedSteps, completedSteps')

\* Line 68 resolved: the for statement's i++ and the next iteration.
StepDelay ==
  /\ UNCHANGED <<parserVars, pageVars, opVars, storeVars, coordVars>>
  /\ rpc = "delay"
  /\ rpc' = "running"
  /\ ri' = ri + 1
  /\ rtrace' = Append(rtrace, Pause)
  /\ UNCHANGED <<rsteps, renv, rpolicy, rtaskId, completedSteps, lastError,
                 hasFailedSteps, rresult, msgs>>

\* Lines 70-76: executeStep rejected and errorPolicy === 'continue'.
StepFailsContinue ==
  /\ UNCHANGED <<parserVars, pageVars, opVars, storeVars, coordVars>>
  /\ rpc = "executing"
  /\ ri < Len(rsteps)
  /\ executeStepThrows(rsteps[ri + 1], renv[ri + 1])
  /\ IgnoresFailure(rpolicy)
  /\ hasFailedSteps' = TRUE
  /\ lastError' = StepErrorMessage(rsteps[ri + 1].type)
  /\ completedSteps' = CompletedAfter(completedSteps, TRUE)
  /\ ri' = AfterFailure(ri)
  /\ UNCHANGED <<rsteps, renv, rpolicy, rtaskId, rtrace>>
  /\ IF ri' < Len(rsteps)
       THEN /\ rpc' = "running"
            /\ UNCHANGED <<rresult, msgs>>
       ELSE FinishRun(lastError', hasFailedSteps', completedSteps')

\* Lines 77-81: executeStep rejected under any other policy: break.
StepFailsStop ==
  /\ UNCHANGED <<parserVars, pageVars, opVars, storeVars, coordVars>>
  /\ rpc = "executing"
  /\ ri < Len(rsteps)
  /\ executeStepThrows(rsteps[ri + 1], renv[ri + 1])
  /\ ~IgnoresFailure(rpolicy)
  /\ lastError' = StepErrorMessage(rsteps[ri + 1].type)
  /\ completedSteps' = CompletedAfter(completedSteps, TRUE)
  /\ UNCHANGED <<rsteps, renv, rpolicy, rtaskId, ri, hasFailedSteps, rtrace>>
  /\ FinishRun(lastError', hasFailedSteps, completedSteps')

(***************************************************************************)
(* Selector resolution and the step handlers: executor.js                  *)
(*                                                                         *)
(* A selectors value is described by kind ("undefined", "null" or "array") *)
(* and, for an array, its groups; parser.js normalizeSelectors makes every *)
(* group an array of descriptors.  The document is described by the        *)
(* instant from which each descriptor matches a node (Never for none); a   *)
(* node is named by the descriptor that matched it.  "!bad" is a           *)
(* descriptor whose evaluation throws (an invalid selector).               *)
(***************************************************************************)
Config == [stepDelay |-> 500, elementTimeout |-> 10000]
PollInterval == 100
SettleDelay == 200

Never == 0 - 1
NoNode == Null
NoSelectors == [kind |-> "undefined", groups |-> <<>>]
Selectors(groups) == [kind |-> "array", groups |-> groups]
NoTimeout == 0 - 1
NoStep == [type |-> "none", selectors |-> NoSelectors, value |-> Undefined,
           timeout |-> NoTimeout]

\* The descriptor matches a node of the document at instant t.
Matches(descriptor, t) ==
  /\ descriptor \in DOMAIN dom
  /\ dom[descriptor] # Never
  /\ dom[descriptor] <= t

\* Mutant: the last alternative of the group is taken.
Primary_LastAlternative(selectorGroup) ==
  IF Len(selectorGroup) = 0 THEN Undefined ELSE selectorGroup[Len(selectorGroup)]

\* Line 321: Array.isArray(selectorGroup) ? selectorGroup[0] : selectorGroup.
\* The first alternative of an empty group is undefined.
Primary(selectorGroup) ==
  IF Len(selectorGroup) = 0 THEN Undefined ELSE selectorGroup[1]

\* An exception leaving the evaluation of a selector.
Throws == "throws"

\* Lines 324-348: the body of the try block for one selector at instant t:
\* the element found, null, or an exception.  Calling startsWith of
\* undefined throws a TypeError, and the document throws on an invalid
\* selector.
Evaluate(selector, t) ==
  IF selector = Undefined \/ selector = "!bad" THEN Throws
  ELSE IF Matches(selector, t) THEN selector
  ELSE NoNode

\* Mutant: the exception of an evaluation is not caught.
Query_Rethrows(selector, t) == Evaluate(selector, t)

\* Lines 323-356: the try statement for one selector at instant t: the
\* catch logs the exception and the loop goes on, no node.
Query(selector, t) ==
  IF Evaluate(selector, t) = Throws THEN NoNode ELSE Evaluate(selector, t)

\* Lines 320-357: the for loop over the groups from position i on, at
\* instant t: the node returned (NoNode if the loop ends) and the groups
\* queried.
RECURSIVE PollFrom(_, _, _)
PollFrom(groups, i, t) ==
  IF i > Len(groups) THEN [result |-> NoNode, evaluated |-> <<>>]
  ELSE IF Query(Primary(groups[i]), t) # NoNode
    THEN [result |-> Query(Primary(groups[i]), t), evaluated |-> <<i>>]
  ELSE LET rest == PollFrom(groups, i + 1, t)
       IN [result |-> rest.result, evaluated |-> <<i>> \o rest.evaluated]

\* Mutant: every group is queried in every pass; the first match is kept.
Poll_EveryGroup(groups, t) ==
  [result |-> PollFrom(groups, 1, t).result,
   evaluated |-> [i \in 1..Len(groups) |-> i]]

\* Lines 320-357: one pass of the while body at instant t.
Poll(groups, t) == PollFrom(groups, 1, t)

\* Mutant: only an absent selectors value returns at once.
EmptySelectors_OnlyAbsent(selectors) ==
  selectors.kind # "array"

\* Line 313: !selectors || selectors.length === 0.
EmptySelectors(selectors) ==
  selectors.kind # "array" \/ Len(selectors.groups) = 0

\* Lines 312-317: findElement(selectors, timeout) up to the while statement.
findElement(selectors, timeout) ==
  /\ fpc = "idle"
  /\ fselectors' = selectors
  /\ ftimeout' = timeout
  /\ fcalled' = clock
  /\ polls' = 0
  /\ delays' = 0
  /\ evaluated' = <<>>
  /\ queried' = {}
  /\ IF EmptySelectors(selectors)
       THEN /\ fpc' = "returned"
            /\ fresult' = NoNode
            /\ UNCHANGED fstart
       ELSE /\ fpc' = "check"
            /\ fstart' = clock
            /\ UNCHANGED fresult
  /\ UNCHANGED <<clock, dom>>

\* Mutant: a pass still begins at the instant the timeout expires.
WithinTimeout_Inclusive(time, startTime, timeout) == time - startTime <= timeout

\* Line 319: the while condition Date.now() - startTime < timeout.
WithinTimeout(time, startTime, timeout) == time - startTime < timeout

\* Lines 319-362: the while condition and, when it holds, one pass over
\* the groups; return null when it does not.
FindPoll ==
  /\ fpc = "check"
  /\ IF WithinTimeout(clock, fstart, ftimeout)
       THEN LET pass == Poll(fselectors.groups, clock)
            IN /\ polls' = polls + 1
               /\ evaluated' = pass.evaluated
               /\ queried' = queried \cup
                    {Primary(fselectors.groups[pass.evaluated[k]]) :
                       k \in 1..Len(pass.evaluated)}
               /\ IF pass.result = Throws
                    THEN fpc' = "threw" /\ UNCHANGED fresult
                    ELSE IF pass.result # NoNode
                      THEN fpc' = "returned" /\ fresult' = pass.result
                      ELSE fpc' = "sleep" /\ UNCHANGED fresult
       ELSE /\ fpc' = "returned"
            /\ fresult' = NoNode
            /\ UNCHANGED <<polls, evaluated, queried>>
  /\ UNCHANGED <<clock, dom, fselectors, ftimeout, fcalled, fstart, delays>>
  /\ UNCHANGED <<hpc, hstep, houtcome, events, estart, epolls>>
  /\ UNCHANGED <<runnerVars, parserVars, storeVars, coordVars, opVars>>

\* Line 359: await delay(100) resolved.
FindDelay ==
  /\ fpc = "sleep"
  /\ fpc' = "check"
  /\ clock' = clock + PollInterval
  /\ delays' = delays + 1
  /\ UNCHANGED <<dom, fselectors, ftimeout, fcalled, fstart, fresult, polls, evaluated,
                 queried>>
  /\ UNCHANGED <<hpc, hstep, houtcome, events, estart, epolls>>
  /\ UNCHANGED <<runnerVars, parserVars, storeVars, coordVars, opVars>>

\* Mutant: handleHover goes on without a node.
ThrowsWithoutNode_NotHover(type) ==
  type \in {"click", "doubleClick", "change"}

\* Lines 182-184, 197-199, 214-216, 268-270: if (!element) throw.
\* handleScroll (257) and handleWaitForElement (282) have no such check.
ThrowsWithoutNode(type) ==
  type \in {"click", "doubleClick", "change", "hover"}

\* The event record of something a handler does to the page.
PageEvent(kind, target) == [kind |-> kind, target |-> target]

\* A step's expression, by what it reads of the document: the node of a
\* descriptor (document.querySelector(d)), a member of that node
\* (document.querySelector(d).id, a TypeError while there is no node), a
\* literal, or text that is not an expression (a SyntaxError).
Expression(form, arg) == [form |-> form, arg |-> arg]

\* Line 293: new Function(`return ${step.expression}`)() at instant t:
\* "truthy", "falsy" or an exception.
EvaluateExpression(expression, t) ==
  CASE expression.form = "node" ->
         IF Matches(expression.arg, t) THEN "truthy" ELSE "falsy"
    [] expression.form = "member" ->
         IF Matches(expression.arg, t) THEN "truthy" ELSE Throws
    [] expression.form = "literal" ->
         IF expression.arg = "true" THEN "truthy" ELSE "falsy"
    [] OTHER -> Throws

\* Mutant: an exception of the evaluation ends the wait with an error.
PollExpression_ThrowIsFatal(expression, t) ==
  IF EvaluateExpression(expression, t) = "truthy" THEN "resolved"
  ELSE IF EvaluateExpression(expression, t) = Throws THEN "expression failed"
  ELSE "again"

\* Lines 291-301: the try statement of one pass: return when the result is
\* truthy; a falsy result and a caught exception both go on to the delay.
PollExpression(expression, t) ==
  IF EvaluateExpression(expression, t) = "truthy" THEN "resolved" ELSE "again"

\* Line 287: step.timeout || Config.elementTimeout.
ExpressionTimeout(step) ==
  IF step.timeout = NoTimeout \/ step.timeout = 0 THEN Config.elementTimeout
  ELSE step.timeout

\* Mutant: the default branch of the switch rejects.
DefaultBranch_Throws(type) == "unknown step type"

\* Lines 167-169: default: console.warn, and executeStep ends.
DefaultBranch(type) == "resolved"

\* Lines 141-170 and the first statement of the handler: executeStep(step).
\* handleNavigate (174-178) and setViewport (163-166) return at once, and
\* so does the default branch; scroll without selectors scrolls the
\* window; handleWaitForExpression reads the clock; the other handlers of
\* this model call findElement.
executeStep(step) ==
  /\ hpc = "idle"
  /\ hstep' = step
  /\ IF step.type = "waitForExpression"
       THEN /\ hpc' = "evaluating"
            /\ estart' = clock
            /\ epolls' = 0
            /\ UNCHANGED <<houtcome, events, clock, dom, findVars>>
     ELSE IF \/ step.type \in {"click", "doubleClick", "change", "hover", "waitForElement"}
             \/ (step.type = "scroll" /\ step.selectors.kind = "array")
       THEN /\ findElement(step.selectors, Config.elementTimeout)
            /\ hpc' = "finding"
            /\ UNCHANGED <<houtcome, events, estart, epolls>>
       ELSE /\ hpc' = "returned"
            /\ houtcome' = IF step.type \in {"navigate", "setViewport", "scroll"}
                             THEN "resolved" ELSE DefaultBranch(step.type)
            /\ events' = IF step.type = "scroll"
                           THEN <<PageEvent("scrollTo", "window")>> ELSE <<>>
            /\ UNCHANGED <<clock, dom, findVars, estart, epolls>>

\* Lines 290-304: the while condition of handleWaitForExpression and, when
\* it holds, one evaluation; throw new Error when it does not.
ExpressionPoll ==
  /\ hpc = "evaluating"
  /\ IF clock - estart < ExpressionTimeout(hstep)
       THEN /\ epolls' = epolls + 1
            /\ IF PollExpression(hstep.expression, clock) = "again"
                 THEN hpc' = "waiting" /\ UNCHANGED houtcome
                 ELSE /\ hpc' = "returned"
                      /\ houtcome' = PollExpression(hstep.expression, clock)
       ELSE /\ hpc' = "returned"
            /\ houtcome' = StepErrorMessage(hstep.type)
            /\ UNCHANGED epolls
  /\ UNCHANGED <<clock, dom, findVars, hstep, events, estart>>
  /\ UNCHANGED <<runnerVars, parserVars, storeVars, coordVars, opVars>>

\* Line 301: await delay(100) resolved.
ExpressionDelay ==
  /\ hpc = "waiting"
  /\ hpc' = "evaluating"
  /\ clock' = clock + PollInterval
  /\ UNCHANGED <<dom, findVars, hstep, houtcome, events, estart, epolls>>
  /\ UNCHANGED <<runnerVars, parserVars, storeVars, coordVars, opVars>>

\* The handler's statements after await findElement, up to its next await
\* or its end.
FindReturns ==
  /\ hpc = "finding"
  /\ fpc = "returned"
  /\ IF fresult = NoNode /\ ThrowsWithoutNode(hstep.type)
       THEN /\ hpc' = "returned"
            /\ houtcome' = StepErrorMessage(hstep.type)
            /\ UNCHANGED events
     ELSE IF hstep.type \in {"click", "doubleClick", "change"}
       THEN \* scrollIntoView, then await delay(200)
            /\ hpc' = "settle"
            /\ events' = Append(events, PageEvent("scrollIntoView", fresult))
            /\ UNCHANGED houtcome
     ELSE IF hstep.type = "hover"
       THEN /\ hpc' = "returned"
            /\ houtcome' = "resolved"
            /\ events' = Append(events, PageEvent("mouseover", fresult))
     ELSE IF hstep.type = "scroll" /\ fresult # NoNode
       THEN /\ hpc' = "returned"
            /\ houtcome' = "resolved"
            /\ events' = Append(events, PageEvent("scrollTo", fresult))
     ELSE \* scroll without a node, waitForElement with or without one
          /\ hpc' = "returned"
          /\ houtcome' = "resolved"
          /\ UNCHANGED events
  /\ UNCHANGED <<clock, dom, findVars, hstep, estart, epolls>>
  /\ UNCHANGED <<runnerVars, parserVars, storeVars, coordVars, opVars>>

\* Lines 188-192, 202-210, 220-233: delay(200) resolved; the rest of
\* handleClick, handleDoubleClick or handleChange.
SettleElapses ==
  /\ hpc = "settle"
  /\ hpc' = "returned"
  /\ houtcome' = "resolved"
  /\ clock' = clock + SettleDelay
  /\ events' =
       IF hstep.type = "click" THEN Append(events, PageEvent("click", fresult))
       ELSE IF hstep.type = "doubleClick" THEN Append(events, PageEvent("dblclick", fresult))
       ELSE events \o <<PageEvent("focus", fresult),
                        PageEvent("value", ""),
                        PageEvent("value", hstep.value),
                        PageEvent("input", fresult),
                        PageEvent("change", fresult)>>
  /\ UNCHANGED <<dom, findVars, hstep, estart, epolls>>
  /\ UNCHANGED <<runnerVars, parserVars, storeVars, coordVars, opVars>>

\* The page with document d, before anything is called.
PageAt(d) ==
  /\ clock = 0
  /\ dom = d
  /\ fpc = "idle"
  /\ fselectors = NoSelectors
  /\ ftimeout = 0
  /\ fcalled = 0
  /\ fstart = 0
  /\ fresult = NoNode
  /\ polls = 0
  /\ delays = 0
  /\ evaluated = <<>>
  /\ queried = {}
  /\ hpc = "idle"
  /\ hstep = NoStep
  /\ houtcome = "none"
  /\ events = <<>>
  /\ estart = 0
  /\ epolls = 0

PageIdle == PageAt([d \in {"#a", "#b"} |-> Never])

RunnerIdle ==
  /\ rpc = "idle"
  /\ rsteps = <<>>
  /\ renv = <<>>
  /\ rpolicy = "stop"
  /\ rtaskId = "none"
  /\ ri = 0
  /\ completedSteps = 0
  /\ lastError = NoError
  /\ hasFailedSteps = FALSE
  /\ rresult = NoResult
  /\ msgs = <<>>
  /\ rtrace = <<>>

\* service-worker.js 158: timeout = 30000.
LoadTimeout == 30000

\* The tab chrome.tabs.create opened: the instant its status becomes
\* complete and the instant it is closed (Never: it does not happen).
NoTab == [opened |-> FALSE, completeAt |-> Never, goneAt |-> Never]
Tab(completeAt, goneAt) == [opened |-> TRUE, completeAt |-> completeAt, goneAt |-> goneAt]
Tabs ==
  {Tab(0, Never), Tab(2 * PollInterval, Never), Tab(LoadTimeout + PollInterval, Never),
   Tab(Never, Never), Tab(Never, PollInterval)}

CoordIdle ==
  /\ cpc = "idle"
  /\ ctaskId = "none"
  /\ ctask = NoTask
  /\ cresult = NoResult
  /\ notifications = <<>>
  /\ tab = NoTab
  /\ wclock = 0
  /\ wstart = 0

RunnerInit ==
  /\ RunnerIdle
  /\ ParserIdle
  /\ StoreEmpty
  /\ CoordIdle
  /\ PageIdle
  /\ OpsIdle

\* The step lists and page environments the Runner is exercised with.
RunStepTypes == {"navigate", "click", "change", "waitForElement", "custom"}
RunStep(type) == [type |-> type, url |-> IF type = "navigate" THEN "https://x" ELSE Undefined]
ErrorPolicies == {"stop", "continue"}

CallExecuteSteps ==
  \E types \in SeqsUpTo(RunStepTypes, MaxSteps) :
    \E env \in [1..Len(types) -> BOOLEAN] :
      \E policy \in ErrorPolicies :
        /\ StartRun([k \in 1..Len(types) |-> RunStep(types[k])], env, "t1", policy)
        /\ UNCHANGED <<parserVars, pageVars, opVars, storeVars, coordVars>>

RunnerNext ==
  \/ CallExecuteSteps
  \/ InvokeStep
  \/ StepSucceeds
  \/ StepDelay
  \/ StepFailsContinue
  \/ StepFailsStop

SpecRunner == RunnerInit /\ [][RunnerNext]_vars

\* Every await of executeSteps settles: executeStep ends by its handler's
\* return, throw or timeout (findElement and handleWaitForExpression are
\* bounded by Config.elementTimeout), and the timer of delay fires.
SpecRunnerLive ==
  /\ SpecRunner
  /\ WF_vars(InvokeStep)
  /\ WF_vars(StepSucceeds \/ StepFailsContinue \/ StepFailsStop)
  /\ WF_vars(StepDelay)

(***************************************************************************)
(* The parser applied to the documents of a bounded set.                   *)
(***************************************************************************)
RawAction(js, type, url, index) == [js |-> js, type |-> type, url |-> url, index |-> index]
\* An index member a recording may carry: a number that is no position.
OwnIndex == 7
RawActions ==
  {RawAction("object", "navigate", u, NoIndex) : u \in {Undefined, "", "https://x", "https://y"}}
  \cup {RawAction("object", t, u, NoIndex) : t \in {"click", "custom"}, u \in {Undefined, "https://y"}}
  \cup {RawAction("object", t, Undefined, OwnIndex) : t \in {"click", "custom"}}
  \cup {RawAction("object", t, Undefined, NoIndex) : t \in {Undefined, ""}}
  \cup {RawAction("null", Undefined, Undefined, NoIndex),
        RawAction("primitive", Undefined, Undefined, NoIndex)}
Docs ==
  {[json |-> j, stepsField |-> "missing", steps |-> <<>>] :
     j \in {"syntaxError", "null", "primitive", "array"}}
  \cup {[json |-> "object", stepsField |-> f, steps |-> <<>>] : f \in {"missing", "notArray"}}
  \cup {[json |-> "object", stepsField |-> "array", steps |-> a] :
          a \in SeqsUpTo(RawActions, MaxActions)}

ParserInit ==
  /\ RunnerIdle
  /\ StoreEmpty
  /\ CoordIdle
  /\ PageIdle
  /\ OpsIdle
  /\ ppc = "ready"
  /\ doc \in Docs
  /\ parseResult = NoParse

\* popup.js 183: parser.parse(jsonText).
CallParse ==
  /\ ppc = "ready"
  /\ ppc' = "parsed"
  /\ parseResult' = parse(doc)
  /\ UNCHANGED <<doc, runnerVars, storeVars, coordVars, pageVars, opVars>>

ParserNext == CallParse

SpecParser == ParserInit /\ [][ParserNext]_vars

(***************************************************************************)
(* The StorageManager operations applied in any order.                     *)
(***************************************************************************)
\* Times of day a schedule is set to, as <<hours, minutes>>.
TimeSamples == {<<0, 0>>, <<9, 0>>, <<23, 59>>}
\* Instants at which the clock is read: around 09:00 and around midnight.
TimesOfDay == {0, 8 * MsPerHour, 9 * MsPerHour, 9 * MsPerHour + 1, 10 * MsPerHour,
               23 * MsPerHour + 59 * MsPerMinute, MsPerDay - 1}
NowSamples == {day * MsPerDay + tod : day \in 0..MaxDay, tod \in TimesOfDay}

\* The task an import creates (popup.js 191-196).
ImportedTask(id) == createTask(id, "rec", "https://x", <<RunStep("navigate"), RunStep("click")>>)

StoreInit ==
  /\ RunnerIdle
  /\ ParserIdle
  /\ StoreEmpty
  /\ CoordIdle
  /\ PageIdle
  /\ OpsIdle

\* generateId() makes the id of a new task differ from the stored ones.
CallSaveTask ==
  /\ \E id \in TaskIds \ StoredIds : saveTask(ImportedTask(id))
  /\ UNCHANGED <<runnerVars, parserVars, pageVars, opVars, coordVars, logs>>

CallDeleteTask ==
  /\ \E id \in TaskIds : deleteTask(id)
  /\ UNCHANGED <<runnerVars, parserVars, pageVars, opVars, coordVars, logs>>

CallSetTaskSchedule ==
  /\ \E id \in TaskIds, enabled \in BOOLEAN, t \in TimeSamples,
        now \in NowSamples, gap \in 0..MaxDateGap :
       setTaskSchedule(id, [enabled |-> enabled, time |-> FormatTime(t[1], t[2]),
                            days |-> 0..6], now, now + gap)
  /\ UNCHANGED <<runnerVars, parserVars, pageVars, opVars, coordVars, logs>>

StoreNext ==
  \/ CallSaveTask
  \/ CallDeleteTask
  \/ CallSetTaskSchedule

SpecStore == StoreInit /\ [][StoreNext]_vars

(***************************************************************************)
(* addLog called again and again on a log that is nearly full.             *)
(***************************************************************************)
\* createLog's executedAt member (types.js 128: Date.now()), which the
\* other specifications leave out; the clock is counted in calls.
LogAt(taskId, status, now) ==
  Spread(createLog(taskId, status, "execution finished"), [executedAt |-> now])
\* The log after n entries were added to an empty log at times 1..n.
LogOf(n) == [k \in 1..n |-> LogAt("t1", ExecutionStatus.SUCCESS, n - k + 1)]
\* Date.now() at the next call: later than every stored entry.
NextNow == IF logs = <<>> THEN 1 ELSE logs[1].executedAt + 1

LogsInit ==
  /\ RunnerIdle
  /\ ParserIdle
  /\ CoordIdle
  /\ PageIdle
  /\ OpsIdle
  /\ tasks = <<>>
  /\ alarms = [id \in TaskIds |-> NoAlarm]
  /\ lastOp = NoOp
  /\ logs \in {LogOf(n) : n \in (maxLogs - 2)..maxLogs}

\* service-worker.js 102 and 121: storage.addLog(createLog({...})).
CallAddLog ==
  /\ NextNow <= maxLogs + MaxLogCalls
  /\ \E taskId \in TaskIds :
       \E status \in {ExecutionStatus.SUCCESS, ExecutionStatus.FAILED,
                       ExecutionStatus.PARTIAL} :
         addLog(LogAt(taskId, status, NextNow))
  /\ UNCHANGED <<runnerVars, parserVars, pageVars, opVars, coordVars, tasks, alarms, lastOp>>

LogsNext == CallAddLog

SpecLogs == LogsInit /\ [][LogsNext]_vars

(***************************************************************************)
(* The service worker's task messages, as the popup sends them.            *)
(***************************************************************************)
\* service-worker.js 36-37 with popup.js 250-263: SAVE_TASK.
HandleSaveTask ==
  /\ \E id \in TaskIds \ StoredIds : saveTask(ImportedTask(id))
  /\ UNCHANGED <<runnerVars, parserVars, pageVars, opVars, coordVars, logs>>

\* service-worker.js 42-43 with popup.js 375-394: UPDATE_TASK.
HandleUpdateTask ==
  /\ \E id \in TaskIds, name \in {"rec", "renamed"}, errorPolicy \in ErrorPolicies,
        enabled \in BOOLEAN, t \in {<<9, 0>>, <<23, 59>>} :
       updateTask(id, [name |-> name, errorPolicy |-> errorPolicy,
                       schedule |-> [enabled |-> enabled,
                                     time |-> FormatTime(t[1], t[2]),
                                     days |-> 0..6]])
  /\ UNCHANGED <<runnerVars, parserVars, pageVars, opVars, coordVars, logs>>

\* service-worker.js 39-40 with popup.js 434-439: DELETE_TASK.
HandleDeleteTask ==
  /\ \E id \in TaskIds : deleteTask(id)
  /\ UNCHANGED <<runnerVars, parserVars, pageVars, opVars, coordVars, logs>>

MsgNext ==
  \/ HandleSaveTask
  \/ HandleUpdateTask
  \/ HandleDeleteTask

SpecMsg == StoreInit /\ [][MsgNext]_vars

(***************************************************************************)
(* Service worker: executeTask, handleExecutionResult, the alarm listener  *)
(* (service-worker.js), together with the content script's run.            *)
(***************************************************************************)
\* Mutant: a blank page stands in when no navigate step gives a url.
getStartUrl_BlankPage(steps) ==
  IF Len(steps) = 0 THEN "about:blank"
  ELSE LET nav == {k \in 1..Len(steps) : steps[k].type = "navigate"}
       IN IF nav = {} THEN "about:blank"
          ELSE LET first == CHOOSE k \in nav : \A j \in nav : k <= j
               IN IF Falsy(steps[first].url) THEN "about:blank" ELSE steps[first].url

\* service-worker.js 148-153: getStartUrl(steps).
getStartUrl(steps) ==
  IF Len(steps) = 0 THEN Null
  ELSE LET nav == {k \in 1..Len(steps) : steps[k].type = "navigate"}
       IN IF nav = {} THEN Null
          ELSE LET first == CHOOSE k \in nav : \A j \in nav : k <= j
               IN IF Falsy(steps[first].url) THEN Null ELSE steps[first].url

\* Mutant: an expired timeout resolves the wait.
checkTab_TimeoutResolves(t, time, startTime) ==
  IF t.goneAt # Never /\ time >= t.goneAt THEN "tab not found"
  ELSE IF t.completeAt # Never /\ time >= t.completeAt THEN "resolve"
  ELSE IF time - startTime > LoadTimeout THEN "resolve"
  ELSE "again"

\* service-worker.js 162-176: one checkTab callback at Date.now() = time:
\* "resolve", "again" (setTimeout(checkTab, 100)) or the message of the
\* Error the promise is rejected with.
checkTab(t, time, startTime) ==
  IF t.goneAt # Never /\ time >= t.goneAt THEN "tab not found"
  ELSE IF t.completeAt # Never /\ time >= t.completeAt THEN "resolve"
  ELSE IF time - startTime > LoadTimeout THEN "page load timed out"
  ELSE "again"

\* service-worker.js 99-111: the catch of executeTask: one failed log
\* entry, and a failure value is returned.
executeTaskCatch(taskId, message) ==
  /\ addLog(createLog(taskId, ExecutionStatus.FAILED, message))
  /\ cresult' = [NoResult EXCEPT !.status = "error", !.message = message]
  /\ cpc' = "returned"

\* service-worker.js 63-81: executeTask(taskId) up to chrome.tabs.create.
executeTask(taskId) ==
  /\ cpc = "idle"
  /\ ctaskId' = taskId
  /\ LET index == FindIndex(tasks, taskId)
     IN IF index = 0
          THEN /\ executeTaskCatch(taskId, "task does not exist")
               /\ UNCHANGED ctask
          ELSE LET task == tasks[index]
                   startUrl == IF Falsy(task.url) THEN getStartUrl(task.steps)
                               ELSE task.url
               IN /\ ctask' = task
                  /\ IF Falsy(startUrl)
                       THEN executeTaskCatch(taskId, "cannot determine start url")
                       ELSE /\ cpc' = "loading"
                            /\ UNCHANGED <<logs, cresult>>
  /\ IF cpc' = "loading" THEN tab' \in Tabs /\ wstart' = wclock
     ELSE UNCHANGED <<tab, wstart>>
  /\ UNCHANGED <<runnerVars, parserVars, pageVars, opVars, tasks, alarms, lastOp, notifications,
                 wclock>>

\* service-worker.js 48-49: the EXECUTE_TASK message of the popup.
HandleExecuteTask ==
  \E taskId \in TaskIds : executeTask(taskId)

\* service-worker.js 202-209: the alarm task_<id> fires.
OnAlarm ==
  \E taskId \in TaskIds :
    /\ alarms[taskId] # NoAlarm
    /\ executeTask(taskId)

\* service-worker.js 162-176, 84-95: a checkTab callback finds the tab
\* complete; waitForTabLoad resolves and EXECUTE_STEPS is sent.
TabLoadComplete ==
  /\ cpc = "loading"
  /\ checkTab(tab, wclock, wstart) = "resolve"
  /\ cpc' = "sent"
  /\ UNCHANGED <<runnerVars, parserVars, pageVars, opVars, storeVars, ctaskId, ctask, cresult,
                 notifications, tab, wclock, wstart>>

\* service-worker.js 164-172, 99-111: a checkTab callback rejects (the tab
\* is gone, or the load timed out); the catch of executeTask runs.
TabLoadFails ==
  /\ cpc = "loading"
  /\ checkTab(tab, wclock, wstart) \notin {"resolve", "again"}
  /\ executeTaskCatch(ctaskId, checkTab(tab, wclock, wstart))
  /\ UNCHANGED <<runnerVars, parserVars, pageVars, opVars, tasks, alarms, lastOp, ctaskId, ctask,
                 notifications, tab, wclock, wstart>>

\* service-worker.js 173-174: the tab is still loading within the timeout;
\* setTimeout(checkTab, 100) runs the next callback PollInterval later.
TabStillLoading ==
  /\ cpc = "loading"
  /\ checkTab(tab, wclock, wstart) = "again"
  /\ wclock' = wclock + PollInterval
  /\ UNCHANGED <<runnerVars, parserVars, pageVars, opVars, storeVars, cpc, ctaskId, ctask,
                 cresult, notifications, tab, wstart>>

\* executor.js 33-36: the content script receives EXECUTE_STEPS and calls
\* executeSteps with the task's steps and task.errorPolicy || 'stop'.
DeliverExecuteSteps ==
  /\ cpc = "sent"
  /\ cpc' = "awaiting"
  /\ \E env \in [1..Len(ctask.steps) -> BOOLEAN] :
       StartRun(ctask.steps, env, ctask.id,
                IF Falsy(ctask.errorPolicy) THEN "stop" ELSE ctask.errorPolicy)
  /\ UNCHANGED <<parserVars, pageVars, opVars, storeVars, ctaskId, ctask, cresult, notifications,
                 tab, wclock, wstart>>

\* service-worker.js 87 rejects: no content script received the message,
\* or the page went away before the response arrived.  A run still in
\* progress ends with its page.
TransportFails ==
  /\ cpc \in {"sent", "awaiting"}
  /\ executeTaskCatch(ctaskId, "transport failure")
  /\ rpc' = IF rpc \in {"running", "executing", "delay"} THEN "gone" ELSE rpc
  /\ UNCHANGED <<rsteps, renv, rpolicy, rtaskId, ri, completedSteps, lastError,
                 hasFailedSteps, rresult, msgs, rtrace>>
  /\ UNCHANGED <<parserVars, pageVars, opVars, tasks, alarms, lastOp, ctaskId, ctask, notifications,
                 tab, wclock, wstart>>

\* service-worker.js 87-97: the response of the content script arrives.
ResponseArrives ==
  /\ cpc = "awaiting"
  /\ rpc = "done"
  /\ cpc' = "returned"
  /\ cresult' = rresult
  /\ UNCHANGED <<runnerVars, parserVars, pageVars, opVars, storeVars, ctaskId, ctask, notifications,
                 tab, wclock, wstart>>

\* Mutant: a notification is shown for every status.
Notified_EveryStatus(status) ==
  IF status = ExecutionStatus.SUCCESS THEN <<"run succeeded">>
  ELSE <<"run failed">>

\* service-worker.js 135-140: the showNotification calls that
\* handleExecutionResult makes for a status, by title.
Notified(status) ==
  IF status = ExecutionStatus.SUCCESS THEN <<"run succeeded">>
  ELSE IF status = ExecutionStatus.FAILED THEN <<"run failed">>
  ELSE <<>>

\* service-worker.js 117-143: handleExecutionResult(message).
handleExecutionResult ==
  /\ msgs # <<>>
  /\ LET message == Head(msgs)
     IN /\ msgs' = Tail(msgs)
        /\ addLog(createLog(message.taskId, message.status, message.message))
        /\ updateTask(message.taskId, [lastStatus |-> message.status])
        /\ notifications' = notifications \o Notified(message.status)
  /\ UNCHANGED <<rpc, rsteps, renv, rpolicy, rtaskId, ri, completedSteps, lastError,
                 hasFailedSteps, rresult, rtrace>>
  /\ UNCHANGED <<parserVars, pageVars, opVars, cpc, ctaskId, ctask, cresult, tab, wclock, wstart>>

\* The stored tasks an invocation meets.
TaskWith(id, url, types, policy) ==
  [createTask(id, "rec", url, [k \in 1..Len(types) |-> RunStep(types[k])])
     EXCEPT !.errorPolicy = policy]
CoordStores ==
  {<<>>}
  \cup {<<TaskWith("t1", "https://x", <<"navigate", "click">>, policy)>> :
          policy \in ErrorPolicies}
  \cup {<<TaskWith("t1", Null, <<"navigate", "change">>, "continue")>>,
        <<TaskWith("t1", Null, <<"click">>, "stop")>>,
        <<[TaskWith("t1", "", <<"navigate", "click">>, "stop")
             EXCEPT !.steps[1].url = ""]>>,
        <<TaskWith("t1", "https://x", <<"click", "change">>, "continue"),
          TaskWith("t2", "https://x", <<"click">>, "stop")>>}

CoordInit ==
  /\ RunnerIdle
  /\ ParserIdle
  /\ CoordIdle
  /\ PageIdle
  /\ OpsIdle
  /\ tasks \in CoordStores
  /\ alarms \in {[id \in TaskIds |-> NoAlarm],
                 [id \in TaskIds |-> IF id = "t1"
                    THEN [when |-> 9 * MsPerHour, periodInMinutes |-> 24 * 60]
                    ELSE NoAlarm]}
  /\ lastOp = NoOp
  /\ logs = <<>>

CoordNext ==
  \/ HandleExecuteTask
  \/ OnAlarm
  \/ TabLoadComplete
  \/ TabLoadFails
  \/ TabStillLoading
  \/ DeliverExecuteSteps
  \/ TransportFails
  \/ InvokeStep
  \/ StepSucceeds
  \/ StepDelay
  \/ StepFailsContinue
  \/ StepFailsStop
  \/ ResponseArrives
  \/ handleExecutionResult

SpecCoord == CoordInit /\ [][CoordNext]_vars

\* The callback of chrome.tabs.get is always delivered, and so is the timer
\* of setTimeout(checkTab, 100).
SpecCoordLive ==
  /\ SpecCoord
  /\ WF_vars(TabLoadComplete \/ TabLoadFails \/ TabStillLoading)

(***************************************************************************)
(* findElement called on the documents and selectors of a bounded set.     *)
(***************************************************************************)
\* Selector groups as normalizeSelectors leaves them.
Groups == {<<>>, <<"#a">>, <<"#b">>, <<"!bad">>, <<"#b", "#a">>}
SelectorValues ==
  {[kind |-> k, groups |-> <<>>] : k \in {"undefined", "null"}}
  \cup {Selectors(g) : g \in SeqsUpTo(Groups, MaxGroups)}
\* Since when a descriptor matches: at the call, two polls later, never.
AppearTimes == {0, 2 * PollInterval, Never}
Documents == [{"#a", "#b"} -> AppearTimes]
\* The program passes Config.elementTimeout only (181, 196, 214, 256, 267,
\* 282); the shorter ones reach the expiry sooner.
FindTimeouts == {PollInterval, 3 * PollInterval, Config.elementTimeout}

FindInit ==
  /\ RunnerIdle
  /\ ParserIdle
  /\ StoreEmpty
  /\ CoordIdle
  /\ OpsIdle
  /\ \E d \in Documents : PageAt(d)

CallFindElement ==
  /\ \E selectors \in SelectorValues :
       \E timeout \in FindTimeouts :
         findElement(selectors, timeout)
  /\ UNCHANGED <<hpc, hstep, houtcome, events, estart, epolls>>
  /\ UNCHANGED <<runnerVars, parserVars, storeVars, coordVars, opVars>>

FindNext ==
  \/ CallFindElement
  \/ FindPoll
  \/ FindDelay

SpecFind == FindInit /\ [][FindNext]_vars

\* The page's event loop runs the continuation of findElement, and the
\* timer of delay(100) fires: time advances.
SpecFindLive ==
  /\ SpecFind
  /\ WF_vars(FindPoll)
  /\ WF_vars(FindDelay)

(***************************************************************************)
(* executeStep called once on a page.                                      *)
(***************************************************************************)
Step(type, selectors, value, timeout) ==
  [type |-> type, selectors |-> selectors, value |-> value, timeout |-> timeout]
\* A waitForExpression step as transformStep (parser.js 162-165) makes it.
ExpressionStep(expression, timeout) ==
  [type |-> "waitForExpression", selectors |-> NoSelectors, value |-> Undefined,
   timeout |-> timeout, expression |-> expression]
Expressions ==
  {Expression("node", "#a"), Expression("member", "#a"), Expression("member", "#b"),
   Expression("literal", "true"), Expression("literal", "false"),
   Expression("invalid", "(")}
\* The selectors of stored steps: transformStep made them an array.
StepSelectorValues ==
  {Selectors(g) : g \in SeqsUpTo(Groups, 1)} \cup {Selectors(<<<<"#b">>, <<"#a">>>>)}
PageSteps ==
  {Step(t, sel, Undefined, NoTimeout) :
     t \in {"click", "doubleClick", "hover", "scroll"}, sel \in StepSelectorValues}
  \cup {Step("change", sel, "v", NoTimeout) : sel \in StepSelectorValues}
  \cup {Step("waitForElement", sel, Undefined, timeout) :
          sel \in StepSelectorValues, timeout \in {NoTimeout, 3 * PollInterval}}
  \cup {Step("scroll", [kind |-> "null", groups |-> <<>>], Undefined, NoTimeout),
        Step("navigate", NoSelectors, Undefined, NoTimeout),
        Step("setViewport", NoSelectors, Undefined, NoTimeout),
        Step("custom", NoSelectors, Undefined, NoTimeout)}
  \cup {ExpressionStep(e, timeout) :
          e \in Expressions, timeout \in {NoTimeout, 0, 3 * PollInterval}}

CallExecuteStep ==
  /\ \E step \in PageSteps : executeStep(step)
  /\ UNCHANGED <<runnerVars, parserVars, storeVars, coordVars, opVars>>

StepNext ==
  \/ CallExecuteStep
  \/ FindPoll
  \/ FindDelay
  \/ FindReturns
  \/ SettleElapses
  \/ ExpressionPoll
  \/ ExpressionDelay

SpecStep == FindInit /\ [][StepNext]_vars

\* The page's event loop runs every continuation of the handler, and the
\* timers of delay fire: time advances.
SpecStepLive ==
  /\ SpecStep
  /\ WF_vars(FindPoll)
  /\ WF_vars(FindDelay)
  /\ WF_vars(FindReturns)
  /\ WF_vars(SettleElapses)
  /\ WF_vars(ExpressionPoll)
  /\ WF_vars(ExpressionDelay)

(***************************************************************************)
(* executeSteps driving executeStep on a page.                             *)
(***************************************************************************)
\* The steps of the runs: the three kinds without a handler that acts, a
\* click whose target appears after one delay, and a wait whose expression
\* is never truthy.
RunPageSteps ==
  {Step("navigate", NoSelectors, Undefined, NoTimeout),
   Step("setViewport", NoSelectors, Undefined, NoTimeout),
   Step("custom", NoSelectors, Undefined, NoTimeout),
   Step("click", Selectors(<<<<"#a">>>>), Undefined, NoTimeout),
   ExpressionStep(Expression("literal", "false"), 3 * PollInterval)}

RunPageInit ==
  /\ RunnerIdle
  /\ ParserIdle
  /\ StoreEmpty
  /\ CoordIdle
  /\ OpsIdle
  /\ PageAt([d \in {"#a", "#b"} |-> IF d = "#a" THEN PollInterval ELSE Never])

\* executor.js 33-36: executeSteps is called.  env is the Runner's record of
\* which steps the page lets complete; a run goes on only while it agrees
\* with what the handlers do.
CallExecuteStepsOnPage ==
  /\ rpc = "idle"
  /\ \E steps \in SeqsUpTo(RunPageSteps, MaxSteps) :
       \E env \in [1..Len(steps) -> BOOLEAN] :
         \E policy \in ErrorPolicies :
           StartRun(steps, env, "t1", policy)
  /\ UNCHANGED <<parserVars, pageVars, opVars, storeVars, coordVars>>

\* executor.js 63: executeStep(step) is called once the handler of the step
\* before has ended.
PageInvokeStep ==
  /\ hpc = "idle"
  /\ InvokeStep

\* executor.js 63, 141-170: the call enters executeStep.
HandlerStarts ==
  /\ rpc = "executing"
  /\ executeStep(rsteps[ri + 1])
  /\ UNCHANGED <<runnerVars, parserVars, storeVars, coordVars, opVars>>

\* executor.js 63-64: the promise of executeStep resolved.
PageStepSucceeds ==
  /\ hpc = "returned"
  /\ houtcome = "resolved"
  /\ StepSucceeds

\* executor.js 70-76: the promise of executeStep rejected, policy continue.
PageStepFailsContinue ==
  /\ hpc = "returned"
  /\ houtcome # "resolved"
  /\ StepFailsContinue

\* executor.js 77-81: the promise of executeStep rejected, any other policy.
PageStepFailsStop ==
  /\ hpc = "returned"
  /\ houtcome # "resolved"
  /\ StepFailsStop

\* executor.js 63: the await of executeStep is over and the call's frame is
\* gone.
HandlerEnds ==
  /\ hpc = "returned"
  /\ rpc # "executing"
  /\ hpc' = "idle"
  /\ fpc' = "idle"
  /\ houtcome' = "none"
  /\ events' = <<>>
  /\ UNCHANGED <<clock, dom, fselectors, ftimeout, fcalled, fstart, fresult, polls, delays,
                 evaluated, queried, hstep, estart, epolls>>
  /\ UNCHANGED <<runnerVars, parserVars, storeVars, coordVars, opVars>>

RunPageNext ==
  \/ CallExecuteStepsOnPage
  \/ PageInvokeStep
  \/ HandlerStarts
  \/ FindPoll
  \/ FindDelay
  \/ FindReturns
  \/ SettleElapses
  \/ ExpressionPoll
  \/ ExpressionDelay
  \/ PageStepSucceeds
  \/ StepDelay
  \/ PageStepFailsContinue
  \/ PageStepFailsStop
  \/ HandlerEnds

SpecRunOnPage == RunPageInit /\ [][RunPageNext]_vars

(***************************************************************************)
(* Two StorageManager calls at a time.                                     *)
(***************************************************************************)
StorageCalls ==
  {StorageCall(op, id, status) :
     op \in {"addLog", "updateTask"}, id \in TaskIds,
     status \in {ExecutionStatus.SUCCESS, ExecutionStatus.FAILED}}
  \cup {StorageCall("deleteTask", id, "none") : id \in TaskIds}
  \cup {StorageCall("saveTask", "t2", "none")}

OpsInit ==
  /\ RunnerIdle
  /\ ParserIdle
  /\ CoordIdle
  /\ PageIdle
  /\ OpsIdle
  /\ tasks = <<createTask("t1", "rec", "https://x", <<>>)>>
  /\ alarms = [id \in TaskIds |-> NoAlarm]
  /\ lastOp = NoOp
  /\ logs = <<>>

\* A message handler or executeTask calls the StorageManager.  generateId
\* (types.js 76-78) gives every saved task an id of its own.
CallStorage ==
  /\ \E p \in Callers :
       \E call \in StorageCalls :
         /\ call.op = "saveTask" =>
              /\ call.taskId \notin StoredIds
              /\ \A q \in Callers : opcall[q] # call
         /\ StorageGet(p, call)
  /\ UNCHANGED <<runnerVars, parserVars, coordVars, pageVars>>

StorageSetResolves ==
  /\ \E p \in Callers : StorageSet(p)
  /\ UNCHANGED <<runnerVars, parserVars, coordVars, pageVars>>

AlarmClearResolves ==
  /\ \E p \in Callers : AlarmCleared(p)
  /\ UNCHANGED <<runnerVars, parserVars, coordVars, pageVars>>

OpsNext ==
  \/ CallStorage
  \/ StorageSetResolves
  \/ AlarmClearResolves

SpecOps == OpsInit /\ [][OpsNext]_vars

(***************************************************************************)
(* Properties of the Replay Runner.                                        *)
(***************************************************************************)
\* Positions (1-based) of the steps of the current run that the page makes fail.
FailingSteps == {k \in 1..Len(rsteps) : executeStepThrows(rsteps[k], renv[k])}
\* 0-based index of the first failing step.
FirstFailingIndex == (CHOOSE k \in FailingSteps : \A j \in FailingSteps : k <= j) - 1
RunDone == rpc = "done"

\* C1: under the stop policy, a run in which some step fails returns
\* completedSteps = the index of the first failing step and status failed
\* (never partial), also when the failing step is the last one.
C1_StopFailsAtFirstFailure ==
  (RunDone /\ rpolicy = "stop" /\ FailingSteps # {}) =>
    /\ rresult.completedSteps = FirstFailingIndex
    /\ rresult.status = ExecutionStatus.FAILED
    /\ rresult.totalSteps = Len(rsteps)

\* C1 witness: a finished stop-policy run whose only failing step is the last.
C1_Witness ==
  /\ RunDone /\ rpolicy = "stop" /\ Len(rsteps) >= 2
  /\ FailingSteps = {Len(rsteps)}
  /\ rresult.status = ExecutionStatus.FAILED
  /\ rresult.completedSteps = Len(rsteps) - 1

\* C2 as stated: under the continue policy completedSteps = totalSteps,
\* whichever steps fail.
C2_ContinueCompletedEqualsTotal ==
  (RunDone /\ rpolicy = "continue") =>
    rresult.completedSteps = rresult.totalSteps

\* C2 amended: under the continue policy every step is attempted and
\* completedSteps is the number of steps that succeeded: totalSteps minus
\* the number of failed steps.
C2_ContinueCompletedCountsSuccesses ==
  (RunDone /\ rpolicy = "continue") =>
    /\ ri = Len(rsteps)
    /\ rresult.totalSteps = Len(rsteps)
    /\ rresult.completedSteps = Len(rsteps) - Cardinality(FailingSteps)

\* C2 witness: [click fails, change succeeds] under continue gives 1 of 2.
C2_Witness ==
  /\ RunDone /\ rpolicy = "continue" /\ Len(rsteps) = 2
  /\ rsteps[1].type = "click" /\ rsteps[2].type = "change"
  /\ FailingSteps = {1}
  /\ rresult.completedSteps = 1 /\ rresult.totalSteps = 2

\* C3: for a non-empty list under the continue policy the status is
\* partial iff at least one step failed, and success otherwise.
C3_ContinueStatus ==
  (RunDone /\ rpolicy = "continue" /\ Len(rsteps) > 0) =>
    /\ (rresult.status = ExecutionStatus.PARTIAL) <=> (FailingSteps # {})
    /\ (FailingSteps = {}) => rresult.status = ExecutionStatus.SUCCESS

\* C3 witness: a finished continue-policy run with a failed and a
\* succeeded step, reported partial.
C3_Witness ==
  /\ RunDone /\ rpolicy = "continue" /\ Len(rsteps) >= 2
  /\ FailingSteps # {} /\ Cardinality(FailingSteps) < Len(rsteps)
  /\ rresult.status = ExecutionStatus.PARTIAL

(***************************************************************************)
(* Properties of the parser.                                               *)
(***************************************************************************)
Parsed == ppc = "parsed"
\* The document has no non-empty action list.
NoActions == doc.json # "object" \/ doc.stepsField # "array" \/ Len(doc.steps) = 0
\* Raw action a lacks a kind discriminator.
LacksKind(a) == a.js # "object" \/ a.type \in {Undefined, ""}
SomeActionLacksKind ==
  /\ doc.json = "object" /\ doc.stepsField = "array"
  /\ \E k \in 1..Len(doc.steps) : LacksKind(doc.steps[k])

\* C8: parsing a document whose action list is empty, missing or not an
\* array, or that is not a record, returns a failure result; parse never
\* returns success with a zero-step list.
C8_NoActionsFails ==
  Parsed =>
    /\ NoActions => parseResult.outcome = "failure"
    /\ parseResult.outcome = "success" => Len(parseResult.steps) > 0

\* C8 witness: a record whose steps member is an empty array was parsed
\* and refused.
C8_Witness ==
  /\ Parsed /\ doc.json = "object" /\ doc.stepsField = "array"
  /\ Len(doc.steps) = 0 /\ parseResult.outcome = "failure"
  /\ parseResult.error = "steps array is empty"

\* C9: when some raw action lacks a kind discriminator (type missing or
\* empty, or the action is not a record), parse returns a failure value,
\* produces no steps and does not throw.
C9_MissingKindFails ==
  (Parsed /\ SomeActionLacksKind) =>
    /\ parseResult.outcome = "failure"
    /\ parseResult.steps = <<>>

\* C9 witness: a null action after a well-formed one; the TypeError that
\* validate raises was turned into a failure value.
C9_Witness ==
  /\ Parsed /\ doc.json = "object" /\ doc.stepsField = "array"
  /\ Len(doc.steps) = 2
  /\ ~LacksKind(doc.steps[1]) /\ doc.steps[2].js = "null"
  /\ parseResult.outcome = "failure"
  /\ parseResult.error = "JSON parse failed: TypeError"

NavigateSteps == {k \in 1..Len(parseResult.steps) : parseResult.steps[k].type = "navigate"}
FirstNavigate == CHOOSE k \in NavigateSteps : \A j \in NavigateSteps : k <= j

\* C10 as stated: after a successful parse startUrl is the url of the
\* first navigate step, and null when there is no navigate step.
C10_StartUrlIsFirstNavigateUrl ==
  (Parsed /\ parseResult.outcome = "success") =>
    IF NavigateSteps = {} THEN parseResult.startUrl = Null
    ELSE parseResult.startUrl = parseResult.steps[FirstNavigate].url

\* C10 amended: startUrl is the url of the first navigate step when that
\* url is a non-empty string; it is null when there is no navigate step
\* and also when the first navigate step's url is missing or empty (later
\* navigate steps are not consulted).
C10_StartUrlIsFirstNavigateUrlOrNull ==
  (Parsed /\ parseResult.outcome = "success") =>
    IF NavigateSteps = {} THEN parseResult.startUrl = Null
    ELSE IF parseResult.steps[FirstNavigate].url \in {Undefined, ""}
      THEN parseResult.startUrl = Null
    ELSE parseResult.startUrl = parseResult.steps[FirstNavigate].url

\* C10 witness: two navigate steps with different urls after another
\* step; the first navigate step's url was derived.
C10_Witness ==
  /\ Parsed /\ parseResult.outcome = "success"
  /\ Len(parseResult.steps) = 3
  /\ NavigateSteps = {2, 3}
  /\ parseResult.steps[2].url = "https://x"
  /\ parseResult.steps[3].url = "https://y"
  /\ parseResult.startUrl = "https://x"

\* C11: after a successful parse the step list has the length and order
\* of the raw action list, and every step's index is its 0-based position,
\* for every kind, unknown kinds whose raw action carries members of its
\* own included.
C11_IndexIsPosition ==
  (Parsed /\ parseResult.outcome = "success") =>
    /\ Len(parseResult.steps) = Len(doc.steps)
    /\ \A k \in 1..Len(doc.steps) :
         /\ parseResult.steps[k].type = doc.steps[k].type
         /\ parseResult.steps[k].index = k - 1

(***************************************************************************)
(* Properties of tasks, alarms and the schedule.                           *)
(***************************************************************************)
TriggerPending(id) == alarms[id] # NoAlarm

\* C4: a task update that carries schedule.enabled = true leaves a
\* recurring trigger for the task pending; and after any sequence of task
\* updates a stored task has a pending trigger iff its stored
\* schedule.enabled is true.
C4_EnabledScheduleHasTrigger ==
  /\ (lastOp.op = "updateTask" /\ lastOp.ok /\ lastOp.enabled) => TriggerPending(lastOp.id)
  /\ \A k \in 1..Len(tasks) : TriggerPending(tasks[k].id) <=> tasks[k].schedule.enabled

\* C5: every pending trigger refers to a stored task, and once
\* deleteTask(id) has returned no trigger for id is pending.
C5_NoOrphanedTrigger ==
  /\ \A id \in TaskIds : TriggerPending(id) => id \in StoredIds
  /\ lastOp.op = "deleteTask" => ~TriggerPending(lastOp.id)

\* Today at h:m, for the day of instant now.
TodayAt(now, h, m) == (now - (now % MsPerDay)) + (h * 60 + m) * MsPerMinute

\* C7: for an enabled schedule with time HH:MM evaluated at now,
\* setTaskSchedule yields nextRun = today at HH:MM when that is strictly
\* after now and tomorrow at HH:MM otherwise; nextRun is strictly after
\* now; the alarm is created with when = nextRun and a period of 24 hours.
C7_NextRun ==
  (lastOp.op = "setTaskSchedule" /\ lastOp.enabled) =>
    /\ \A t \in TimeSamples :
         lastOp.time = FormatTime(t[1], t[2]) =>
           lastOp.nextRun = IF TodayAt(lastOp.now, t[1], t[2]) > lastOp.now
                              THEN TodayAt(lastOp.now, t[1], t[2])
                              ELSE TodayAt(lastOp.now, t[1], t[2]) + MsPerDay
    /\ lastOp.nextRun > lastOp.now
    /\ alarms[lastOp.id].when = lastOp.nextRun
    /\ alarms[lastOp.id].periodInMinutes * MsPerMinute = MsPerDay

\* C7 witness: 09:00 set at exactly 09:00:00.000 runs tomorrow at 09:00.
C7_Witness ==
  /\ lastOp.op = "setTaskSchedule" /\ lastOp.enabled
  /\ lastOp.time = FormatTime(9, 0)
  /\ lastOp.now = 9 * MsPerHour
  /\ lastOp.nextRun = MsPerDay + 9 * MsPerHour
  /\ alarms[lastOp.id].when = lastOp.nextRun

\* A step of setTaskSchedule with schedule.enabled = false.
ScheduleDisabled == lastOp'.op = "setTaskSchedule" /\ ~lastOp'.enabled

\* C28: setTaskSchedule with schedule.enabled = false leaves no trigger
\* pending for the task (a pending one is cancelled, none is created) and
\* leaves the stored tasks and every other task's trigger as they were.
C28_DisableCancelsOnlyOwnTrigger ==
  [][ScheduleDisabled =>
       /\ alarms'[lastOp'.id] = NoAlarm
       /\ \A id \in TaskIds \ {lastOp'.id} : alarms'[id] = alarms[id]
       /\ tasks' = tasks]_vars

\* C28 witness: the schedule of one task was disabled, that task has no
\* trigger, and the trigger of the other task is still pending while both
\* tasks are stored.
C28_Witness ==
  /\ lastOp.op = "setTaskSchedule" /\ ~lastOp.enabled
  /\ alarms[lastOp.id] = NoAlarm
  /\ \E id \in TaskIds \ {lastOp.id} : alarms[id] # NoAlarm
  /\ Len(tasks) = 2

\* A step of updateTask.
TaskUpdated == lastOp'.op = "updateTask"

\* The members of a task that the popup's UPDATE_TASK does not name.
Unnamed == {"id", "url", "steps", "lastStatus"}

\* C35: updateTask(id, updates) with the popup's updates (name,
\* errorPolicy, schedule) leaves the number of stored tasks, every other
\* task, and the id, url, steps and lastStatus of task id as they were;
\* for an id that is not stored it reports failure and storage is as it
\* was: no task is created.
C35_UpdateChangesNamedFieldsOnly ==
  [][TaskUpdated =>
       /\ Len(tasks') = Len(tasks)
       /\ \A k \in 1..Len(tasks) :
            IF tasks[k].id = lastOp'.id
              THEN \A f \in Unnamed : tasks'[k][f] = tasks[k][f]
              ELSE tasks'[k] = tasks[k]
       /\ lastOp'.ok <=> lastOp'.id \in StoredIds
       /\ ~lastOp'.ok => tasks' = tasks
       /\ alarms' = alarms]_vars

\* C35 witness: two tasks are stored; the last update renamed one of them
\* and set its policy to continue; its steps are those of the import and
\* the other task still has its name.
C35_Witness ==
  /\ lastOp.op = "updateTask" /\ lastOp.ok
  /\ Len(tasks) = 2
  /\ \E k \in 1..2 :
       /\ tasks[k].id = lastOp.id
       /\ tasks[k].name = "renamed" /\ tasks[k].errorPolicy = "continue"
       /\ tasks[k].steps = ImportedTask(lastOp.id).steps
       /\ tasks[3 - k] = ImportedTask(tasks[3 - k].id)

(***************************************************************************)
(* Properties of executeTask.                                              *)
(***************************************************************************)
\* The invocation of executeTask has returned and nothing of it is still
\* in flight or running.
InvocationOver ==
  /\ cpc = "returned"
  /\ msgs = <<>>
  /\ rpc \notin {"running", "executing", "delay"}

\* C6: every invocation of executeTask results in exactly one log entry,
\* whether the run completes in the page, fails before the Runner is
\* invoked, or the transport fails after the page reported its result.
C6_ExactlyOneLogPerInvocation ==
  InvocationOver => Len(logs) = 1

\* The task has neither an explicit url nor a navigate step with a url.
HasNoStartUrl(task) ==
  /\ task.url \in {Undefined, Null, ""}
  /\ \A k \in 1..Len(task.steps) :
       task.steps[k].type = "navigate" => task.steps[k].url \in {Undefined, Null, ""}

\* C14: executeTask on a task without start url fails fast: no page is
\* opened, EXECUTE_STEPS is never sent (no run starts, no result and no
\* notification follows), exactly one log entry with status failed and the
\* error's message is appended, and a failure value is returned.
C14_NoStartUrlFailsFast ==
  (ctask # NoTask /\ HasNoStartUrl(ctask)) =>
    /\ cpc = "returned"
    /\ rpc = "idle" /\ msgs = <<>> /\ notifications = <<>>
    /\ logs = <<createLog(ctaskId, ExecutionStatus.FAILED, "cannot determine start url")>>
    /\ cresult.success = FALSE
    /\ cresult.message = "cannot determine start url"

\* C14 witness: the stored task t1 has an empty url and its only navigate
\* step has an empty url; executeTask returned the failure.
C14_Witness ==
  /\ cpc = "returned" /\ ctask # NoTask
  /\ ctask.url = "" /\ ctask.steps[1].type = "navigate" /\ ctask.steps[1].url = ""
  /\ Len(logs) = 1 /\ logs[1].status = ExecutionStatus.FAILED
  /\ cresult.message = "cannot determine start url"

\* An EXECUTION_RESULT message is taken from the channel: a step of
\* handleExecutionResult.
ResultHandled == msgs # <<>> /\ msgs' = Tail(msgs)

\* C12: handling a run result issues exactly one notification when its
\* status is success or failed and none when it is partial; no other step
\* issues a notification.
C12_NotifyOnSuccessOrFailedOnly ==
  [][/\ ResultHandled =>
          IF Head(msgs).status \in {ExecutionStatus.SUCCESS, ExecutionStatus.FAILED}
            THEN Len(notifications') = Len(notifications) + 1
            ELSE notifications' = notifications
     /\ ~ResultHandled => notifications' = notifications]_vars

\* C12 witness: a run that ended partial was handled (its log entry is
\* stored) and no notification was issued.
C12_Witness ==
  /\ InvocationOver
  /\ rresult.status = ExecutionStatus.PARTIAL
  /\ Len(logs) >= 1
  /\ logs[Len(logs)].status = ExecutionStatus.PARTIAL
  /\ notifications = <<>>

\* C26: once an invocation of executeTask for an existing task is over,
\* the stored task's lastStatus is the status of the log entry appended
\* for that invocation (the newest entry), whether the run ended in the
\* page or failed before the Runner was invoked.
C26_LastStatusIsLoggedStatus ==
  (InvocationOver /\ ctask # NoTask) =>
    /\ logs # <<>>
    /\ \A k \in 1..Len(tasks) :
         tasks[k].id = ctaskId => tasks[k].lastStatus = logs[1].status

\* The page opened for the invocation never reaches status complete (and
\* the tab stays open).
NeverLoads == tab.opened /\ tab.completeAt = Never /\ tab.goneAt = Never

\* C27: when the opened page never reaches status complete, the wait ends
\* once more than 30 s have passed (at the first checkTab after that) with
\* the page-load-timeout failure; the Runner is never invoked, and exactly
\* one failed log entry with the timeout's message is appended.
C27_NeverLoadingPageTimesOut ==
  /\ [](NeverLoads =>
         /\ cpc \in {"loading", "returned"}
         /\ rpc = "idle" /\ msgs = <<>>
         /\ wclock - wstart <= LoadTimeout + PollInterval
         /\ cpc = "loading" => logs = <<>>
         /\ cpc = "returned" =>
              /\ wclock - wstart > LoadTimeout
              /\ logs = <<createLog(ctaskId, ExecutionStatus.FAILED, "page load timed out")>>
              /\ cresult.success = FALSE
              /\ cresult.message = "page load timed out")
  /\ (NeverLoads /\ cpc = "loading") ~> (cpc = "returned")

\* C27 witness: the page never loaded, the wait ended 30.1 s after it
\* began, and the failed log entry is stored.
C27_Witness ==
  /\ NeverLoads
  /\ cpc = "returned"
  /\ wclock - wstart = LoadTimeout + PollInterval
  /\ Len(logs) = 1 /\ logs[1].status = ExecutionStatus.FAILED
  /\ rpc = "idle"

(***************************************************************************)
(* Properties of the log.                                                  *)
(***************************************************************************)
\* C13: the stored log never holds more than maxLogs entries, and every
\* addLog keeps the new entry first, followed by the newest entries of the
\* log before it in their order: what is dropped is the oldest entry.
C13_LogBoundedOldestDropped ==
  /\ [](Len(logs) <= maxLogs)
  /\ [][logs' # logs =>
          /\ Len(logs') = (IF Len(logs) < maxLogs THEN Len(logs) + 1 ELSE maxLogs)
          /\ logs'[1].executedAt > logs[1].executedAt
          /\ Tail(logs') = SubSeq(logs, 1, Len(logs') - 1)
          /\ \A k \in 1..Len(logs') : logs'[k].executedAt = logs'[1].executedAt - (k - 1)]_vars

\* C13 witness: the log is full and its oldest entries were dropped: the
\* oldest entry kept is not the first one ever added.
C13_Witness ==
  /\ Len(logs) = maxLogs
  /\ logs[maxLogs].executedAt = 1 + MaxLogCalls
  /\ logs[1].executedAt = maxLogs + MaxLogCalls

(***************************************************************************)
(* Properties of the step handlers and of findElement.                     *)
(***************************************************************************)
HandlerReturned == hpc = "returned"
HandlerThrew == houtcome \notin {"none", "resolved"}
\* findElement returned without a node: the timeout expired or the
\* selector list was empty.
TargetNotResolved == fpc = "returned" /\ fresult = NoNode

\* C15: a waitForElement step whose target is not resolved raises a step
\* failure; only a resolved target lets the step succeed.
C15_WaitForElementTimeoutThrows ==
  (HandlerReturned /\ hstep.type = "waitForElement" /\ TargetNotResolved) =>
    HandlerThrew

\* C16: a click, doubleClick, hover or change step whose target is not
\* resolved (timeout expired or empty selector list) throws its "target
\* not found" error, and nothing was dispatched to the page or assigned to
\* an element's value, neither before nor after findElement returned.
C16_UnresolvedTargetThrowsNoEvents ==
  hstep.type \in {"click", "doubleClick", "hover", "change"} =>
    /\ hpc = "finding" => events = <<>>
    /\ (HandlerReturned /\ TargetNotResolved) =>
         /\ houtcome = StepErrorMessage(hstep.type)
         /\ HandlerThrew
         /\ events = <<>>

\* C16 witness: a change step whose only descriptor never matched: after
\* the timeout expired the handler threw and did nothing to the page.
C16_Witness ==
  /\ HandlerReturned /\ hstep.type = "change"
  /\ hstep.selectors = Selectors(<<<<"#a">>>>)
  /\ dom["#a"] = Never
  /\ TargetNotResolved
  /\ clock - fstart >= Config.elementTimeout
  /\ houtcome = "change target not found"
  /\ events = <<>>

\* C17: findElement called with an absent or empty selectors value returns
\* no node at once: no pass over the groups, no delay, no time elapsed,
\* whatever the timeout.
C17_EmptySelectorsReturnAtOnce ==
  (fpc = "returned" /\ (fselectors.kind # "array" \/ Len(fselectors.groups) = 0)) =>
    /\ fresult = NoNode
    /\ polls = 0
    /\ delays = 0
    /\ evaluated = <<>>
    /\ clock = fcalled

\* C17 witness: findElement([], Config.elementTimeout) returned null on a
\* page where both descriptors match.
C17_Witness ==
  /\ fpc = "returned"
  /\ fselectors = Selectors(<<>>)
  /\ ftimeout = Config.elementTimeout
  /\ dom["#a"] = 0 /\ dom["#b"] = 0
  /\ fresult = NoNode /\ polls = 0

\* The first alternative of some group matches a node when findElement is
\* called.
MatchesAtCall ==
  /\ fselectors.kind = "array"
  /\ \E i \in 1..Len(fselectors.groups) :
       /\ Len(fselectors.groups[i]) > 0
       /\ fselectors.groups[i][1] \in DOMAIN dom
       /\ dom[fselectors.groups[i][1]] # Never
       /\ dom[fselectors.groups[i][1]] <= fcalled

\* C18: when the first alternative of some group matches at call time,
\* findElement returns a node in its first pass and no delay has elapsed;
\* in the pass that finds a node the groups are queried in order up to the
\* one that matched and no later group is queried.
C18_MatchAtCallReturnsInFirstPoll ==
  /\ (fpc = "returned" /\ MatchesAtCall) =>
       /\ fresult # NoNode
       /\ polls = 1
       /\ delays = 0
       /\ clock = fcalled
  /\ (fpc = "returned" /\ fresult # NoNode) =>
       /\ evaluated = [j \in 1..Len(evaluated) |-> j]
       /\ Len(evaluated) \in 1..Len(fselectors.groups)
       /\ Primary(fselectors.groups[Len(evaluated)]) = fresult

\* C18 witness: both groups match at call time; the first one's node was
\* returned in the first pass and the second group was not queried.
C18_Witness ==
  /\ fpc = "returned"
  /\ fselectors = Selectors(<<<<"#a">>, <<"#b">>>>)
  /\ dom["#a"] = 0 /\ dom["#b"] = 0
  /\ fresult = "#a"
  /\ polls = 1 /\ delays = 0
  /\ evaluated = <<1>>

\* The first alternative of a selector group (undefined for an empty one).
FirstOf(g) == IF Len(g) = 0 THEN Undefined ELSE g[1]

\* The first alternative of group j matches a node at the page's instant.
FirstMatches(j) ==
  /\ Len(fselectors.groups[j]) > 0
  /\ fselectors.groups[j][1] \in DOMAIN dom
  /\ dom[fselectors.groups[j][1]] # Never
  /\ dom[fselectors.groups[j][1]] <= clock

\* C29: every pass of findElement queries the groups in list order, one
\* selector per group, and that selector is the group's first alternative:
\* no other alternative is ever handed to the document; the node returned
\* is that of the lowest-index group whose first alternative matches.
C29_OnlyPrimaryInGroupOrder ==
  fselectors.kind = "array" =>
    /\ evaluated = [j \in 1..Len(evaluated) |-> j]
    /\ Len(evaluated) <= Len(fselectors.groups)
    /\ queried \subseteq {FirstOf(fselectors.groups[j]) : j \in 1..Len(fselectors.groups)}
    /\ (fpc = "returned" /\ fresult # NoNode) =>
         /\ Len(evaluated) >= 1
         /\ FirstMatches(Len(evaluated))
         /\ fresult = fselectors.groups[Len(evaluated)][1]
         /\ \A j \in 1..(Len(evaluated) - 1) : ~FirstMatches(j)
    /\ (fpc = "returned" /\ fresult = NoNode /\ polls > 0) =>
         \A j \in 1..Len(fselectors.groups) : ~FirstMatches(j)

\* C29 witness: the only group is ["#b", "#a"]; #a matches a node from the
\* call on and #b never does; findElement polled until the timeout and
\* returned null, having queried #b only.
C29_Witness ==
  /\ fpc = "returned"
  /\ fselectors = Selectors(<<<<"#b", "#a">>>>)
  /\ dom["#a"] = 0 /\ dom["#b"] = Never
  /\ fresult = NoNode
  /\ polls >= 1
  /\ queried = {"#b"}

\* C30: a selector whose evaluation throws counts as no match in that pass
\* only: the pass goes on with the remaining groups (a pass that found no
\* node queried every group), findElement keeps polling until a node is
\* found or the timeout expires, and no exception leaves findElement.
C30_ThrowingSelectorIsNoMatch ==
  /\ fpc # "threw"
  /\ fresult # Throws
  /\ fpc = "sleep" => evaluated = [j \in 1..Len(fselectors.groups) |-> j]
  /\ (fpc = "returned" /\ fresult = NoNode /\ fselectors.kind = "array"
        /\ Len(fselectors.groups) > 0) =>
       clock - fstart >= ftimeout

\* C30 witness: the groups are ["!bad"] and ["#a"], and #a matches a node
\* from 200 ms on: the invalid selector threw in each of three passes, the
\* second group was queried in each, and the third pass returned #a's node.
C30_Witness ==
  /\ fpc = "returned"
  /\ fselectors = Selectors(<<<<"!bad">>, <<"#a">>>>)
  /\ dom["#a"] = 2 * PollInterval
  /\ fresult = "#a"
  /\ polls = 3
  /\ evaluated = <<1, 2>>
  /\ queried = {"!bad", "#a"}

\* No group's first alternative ever matches a node of the document.
NothingEverMatches ==
  /\ fselectors.kind = "array"
  /\ Len(fselectors.groups) > 0
  /\ \A j \in 1..Len(fselectors.groups) :
       LET g == fselectors.groups[j]
       IN Len(g) > 0 /\ g[1] \in DOMAIN dom => dom[g[1]] = Never

\* C31: when no group's first alternative ever matches, findElement ends
\* and returns null, and it does so only once the timeout has elapsed; no
\* pass begins at or after the expiry of the timeout, and successive
\* passes begin exactly PollInterval (100 ms) apart.
C31_PollsUntilTimeoutThenNull ==
  /\ [](NothingEverMatches =>
         /\ fpc \in {"check", "sleep", "returned"}
         /\ fresult = NoNode
         /\ clock = fstart + delays * PollInterval
         /\ polls \in {delays, delays + 1}
         /\ fpc = "sleep" <=> polls = delays + 1
         /\ polls > 0 => (polls - 1) * PollInterval < ftimeout
         /\ fpc = "returned" => clock - fstart >= ftimeout)
  /\ (NothingEverMatches /\ fpc = "check") ~> (fpc = "returned" /\ fresult = NoNode)

\* C31 witness: neither #a nor #b is ever in the document; findElement
\* called with [["#a"]] and a timeout of 300 ms made three passes 100 ms
\* apart and returned null 300 ms after the call.
C31_Witness ==
  /\ fpc = "returned"
  /\ fselectors = Selectors(<<<<"#a">>>>)
  /\ dom["#a"] = Never /\ dom["#b"] = Never
  /\ ftimeout = 3 * PollInterval
  /\ fresult = NoNode
  /\ polls = 3 /\ delays = 3
  /\ clock - fstart = 3 * PollInterval

\* C34: a scroll step that has returned made exactly one scroll: of the
\* resolved element when the step has a target selector, of the window
\* when it has none.
C34_ScrollMakesExactlyOneScroll ==
  (HandlerReturned /\ hstep.type = "scroll") =>
    /\ Len(events) = 1
    /\ events[1].kind = "scrollTo"
    /\ events[1].target = IF hstep.selectors.kind = "array" THEN fresult ELSE "window"
    /\ hstep.selectors.kind = "array" => fresult # NoNode

\* The step in hand is a waitForExpression step.
WaitsForExpression == hstep.type = "waitForExpression"

\* The instant of the k-th evaluation of the expression (k = 1, 2, ...).
EvaluationAt(k) == estart + (k - 1) * PollInterval

\* The expression of the step in hand is truthy at instant t.
TruthyAt(t) == EvaluateExpression(hstep.expression, t) = "truthy"

\* C33: a waitForExpression step evaluates its expression every 100 ms
\* from the call on; it resolves at the first evaluation that is truthy;
\* an evaluation that throws is one that is not truthy and the wait goes
\* on; when no evaluation begun before the timeout elapsed was truthy the
\* step ends by throwing the expression-timeout error.
C33_ExpressionPolledUntilTruthyOrTimeout ==
  /\ [](WaitsForExpression =>
         /\ hpc \in {"evaluating", "waiting", "returned"}
         /\ events = <<>>
         /\ \A k \in 1..epolls :
              /\ EvaluationAt(k) - estart < ExpressionTimeout(hstep)
              /\ TruthyAt(EvaluationAt(k)) <=>
                   (k = epolls /\ hpc = "returned" /\ houtcome = "resolved")
         /\ hpc = "evaluating" => clock = EvaluationAt(epolls + 1)
         /\ hpc = "waiting" => clock = EvaluationAt(epolls)
         /\ (hpc = "returned" /\ houtcome = "resolved") =>
              epolls >= 1 /\ clock = EvaluationAt(epolls)
         /\ (hpc = "returned" /\ houtcome # "resolved") =>
              /\ houtcome = "wait for expression timed out"
              /\ clock = EvaluationAt(epolls + 1)
              /\ clock - estart >= ExpressionTimeout(hstep))
  /\ (WaitsForExpression /\ hpc = "evaluating") ~> (hpc = "returned")

\* C33 witness: the expression reads a member of #a's node, and #a is in
\* the document from 200 ms on: two evaluations threw, the third was
\* truthy and the step resolved 200 ms after the call.
C33_Witness ==
  /\ WaitsForExpression
  /\ hstep.expression = Expression("member", "#a")
  /\ dom["#a"] = 2 * PollInterval
  /\ hpc = "returned" /\ houtcome = "resolved"
  /\ epolls = 3
  /\ clock - estart = 2 * PollInterval

\* The kinds executeStep has no acting handler for: navigate, setViewport
\* and any kind the switch does not list.
Inert(type) ==
  type \notin {"click", "doubleClick", "change", "keyDown", "keyUp", "scroll", "hover",
               "waitForElement", "waitForExpression"}

\* The Runner takes the outcome of the step it invoked.
OutcomeTaken == rpc = "executing" /\ rpc' # "executing"

\* C32: executeStep of a navigate, a setViewport or an unrecognized step
\* resolves, having dispatched nothing to the page and called no
\* findElement; and the Runner, under either policy, counts the
\* step as completed and records no failure for it.
C32_InertStepsResolveAndCount ==
  /\ []((hpc # "idle" /\ Inert(hstep.type)) =>
         /\ hpc = "returned"
         /\ houtcome = "resolved"
         /\ events = <<>>
         /\ fpc = "idle")
  /\ [][(OutcomeTaken /\ Inert(rsteps[ri + 1].type)) =>
          /\ completedSteps' = completedSteps + 1
          /\ lastError' = lastError
          /\ hasFailedSteps' = hasFailedSteps]_vars
  /\ []((RunDone /\ \A k \in 1..Len(rsteps) : Inert(rsteps[k].type)) =>
         /\ completedSteps = Len(rsteps)
         /\ rresult.status = ExecutionStatus.SUCCESS)

\* C32 witness: a run of a navigate, a setViewport and an unrecognized
\* step under the stop policy is over: three steps are counted, the status
\* is success, and the last handler left nothing on the page.
C32_Witness ==
  /\ RunDone
  /\ rpolicy = "stop"
  /\ Len(rsteps) = 3
  /\ rsteps[1].type = "navigate" /\ rsteps[2].type = "setViewport"
  /\ rsteps[3].type = "custom"
  /\ hstep.type = "custom" /\ hpc = "returned" /\ houtcome = "resolved"
  /\ events = <<>>
  /\ completedSteps = 3
  /\ rresult.status = ExecutionStatus.SUCCESS

(***************************************************************************)
(* Properties of overlapping StorageManager calls.                         *)
(***************************************************************************)
Returned(p, op) == opc[p] = "done" /\ opcall[p].op = op

\* C19: when two addLog calls overlap at their get and set, both entries
\* are in the stored log afterwards (the log is far below maxLogs).
C19_BothLogEntriesStored ==
  (\A p \in Callers : Returned(p, "addLog")) =>
    /\ Len(logs) = Cardinality(Callers)
    /\ \A p \in Callers : \E k \in 1..Len(logs) : logs[k] = LogOfCall(opcall[p])

\* C20: when updateTask overlaps deleteTask or saveTask, a task id whose
\* deleteTask returned success is not in storage, and a task whose
\* saveTask returned is in storage unless a deleteTask of it was called.
C20_TaskWritesSerialized ==
  \A p \in Callers :
    /\ (Returned(p, "deleteTask") /\ opret[p] = "ok") =>
         opcall[p].taskId \notin StoredIds
    /\ Returned(p, "saveTask") =>
         \/ opcall[p].taskId \in StoredIds
         \/ \E q \in Callers : opcall[q] = StorageCall("deleteTask", opcall[p].taskId, "none")

(***************************************************************************)
(* Properties of the order and pacing of a run.                            *)
(***************************************************************************)
IsStepEntry(e) == e # Pause
\* The indices of the steps handed to executeStep so far, in order.
Invoked == SelectSeq(rtrace, IsStepEntry)
Ascending(n) == [k \in 1..n |-> k - 1]
Running == rpc \in {"running", "executing", "delay"}

\* C21: under the continue policy the steps handed to executeStep are
\* 0, 1, ..., N-1: each once, in ascending order, none retried; a step is
\* handed over only when no other step of the run is executing.
C21_ContinueInvokesEveryStepOnce ==
  /\ [](rpolicy = "continue" => Invoked = Ascending(Len(Invoked)))
  /\ []((RunDone /\ rpolicy = "continue") => Invoked = Ascending(Len(rsteps)))
  /\ [][Len(rtrace') > Len(rtrace) /\ rtrace'[Len(rtrace')] # Pause =>
          rpc # "executing" /\ rpc' = "executing"]_vars

\* C21 witness: three steps under continue, the second one failed, and all
\* three were handed to executeStep in order.
C21_Witness ==
  /\ RunDone /\ rpolicy = "continue"
  /\ Len(rsteps) = 3
  /\ FailingSteps = {2}
  /\ Invoked = <<0, 1, 2>>

\* C22: under the stop policy the steps handed to executeStep are 0..f in
\* order, each once, f being the index of the first failing step (N-1 when
\* none fails): no step after a failed one is invoked.
C22_StopInvokesUpToFirstFailure ==
  rpolicy = "stop" =>
    /\ Invoked = Ascending(Len(Invoked))
    /\ FailingSteps # {} => Len(Invoked) <= FirstFailingIndex + 1
    /\ RunDone =>
         Len(Invoked) = (IF FailingSteps = {} THEN Len(rsteps)
                         ELSE FirstFailingIndex + 1)

\* C22 witness: three steps under stop, the second one failed, the third
\* was never invoked.
C22_Witness ==
  /\ RunDone /\ rpolicy = "stop"
  /\ Len(rsteps) = 3
  /\ FailingSteps = {2, 3}
  /\ Invoked = <<0, 1>>

\* C23: between any two steps invoked one after the other the inter-step
\* delay elapses, after a success and after a failure alike, and no delay
\* follows the last step.
C23_DelayBetweenAnyTwoSteps ==
  /\ \A k \in 1..(Len(rtrace) - 1) : rtrace[k] # Pause => rtrace[k + 1] = Pause
  /\ (RunDone /\ rtrace # <<>>) => rtrace[Len(rtrace)] # Pause

\* C24: a run over an empty step list invokes no step and ends partial.
C24_EmptyListEndsPartial ==
  (RunDone /\ Len(rsteps) = 0) =>
    /\ rtrace = <<>>
    /\ rresult.status = ExecutionStatus.PARTIAL

\* C25: every run leaves the Running state; it returns one result, with
\* totalSteps = N and 0 <= completedSteps <= N, that does not change
\* afterwards, and sends exactly one EXECUTION_RESULT message.
C25_RunEndsWithOneOutcome ==
  /\ Running ~> RunDone
  /\ [](RunDone =>
          /\ rresult # NoResult
          /\ rresult.totalSteps = Len(rsteps)
          /\ rresult.completedSteps \in 0..Len(rsteps)
          /\ Len(msgs) = 1
          /\ msgs[1].type = "EXECUTION_RESULT"
          /\ msgs[1].status = rresult.status)
  /\ [](~RunDone => rresult = NoResult /\ msgs = <<>>)
  /\ [][rresult # NoResult => rresult' = rresult /\ msgs' = msgs]_vars

\* C25 witness: a run of three steps aborted at its second step has
\* returned and its one message is in flight.
C25_Witness ==
  /\ RunDone /\ Len(rsteps) = 3 /\ rpolicy = "stop"
  /\ rresult.totalSteps = 3 /\ rresult.completedSteps = 1
  /\ Len(msgs) = 1

====
